---- MODULE Spec2Model ----
(***************************************************************************)
(* Block Blast self-play agent (ai.py), genetic trainer (ai_trainer.py),   *)
(* game engine (game.py, pieces.py), snapshot writer (state_io.py) and the *)
(* game process's agent-facing handlers (ui.py).                           *)
(*                                                                         *)
(* Numbers.  Weights are kept as integers scaled by 10 (every weight       *)
(* of FALLBACK_WEIGHTS and every bound of BOUNDS is a multiple of 0.1).    *)
(* A move's value is kept exactly, as the pair (p, d) that stands for the  *)
(* real number (p - k*sqrt(d)) / (10*Size), k the scaled diversity         *)
(* weight; values are compared exactly (ValueGt).  IEEE rounding of the    *)
(* Python floats is not modelled.                                          *)
(***************************************************************************)
EXTENDS Integers, Sequences, FiniteSets, TLC

\* Side of the square board (Game.size, len(grid), BOARD_SIZE); 8 in the program.
Size == 3

Idx == 0 .. (Size - 1)

\* Python's None where a piece is expected: a record no piece equals.
None == [cells |-> {}]

--------------------------------------------------------------------------
\* pieces.py

\* The catalog, cells as <<x, y>>; every entry is already normalized.
PIECES ==
  <<  {<<0,0>>},
      {<<0,0>>, <<1,0>>},
      {<<0,0>>, <<1,0>>, <<2,0>>},
      {<<0,0>>, <<1,0>>, <<2,0>>, <<3,0>>},
      {<<0,0>>, <<0,1>>},
      {<<0,0>>, <<0,1>>, <<0,2>>},
      {<<0,0>>, <<0,1>>, <<0,2>>, <<0,3>>},
      {<<0,0>>, <<1,0>>, <<0,1>>, <<1,1>>},
      {<<0,0>>, <<1,0>>, <<2,0>>, <<0,1>>, <<1,1>>, <<2,1>>, <<0,2>>, <<1,2>>, <<2,2>>},
      {<<0,0>>, <<0,1>>, <<0,2>>, <<1,2>>},
      {<<1,0>>, <<1,1>>, <<1,2>>, <<0,2>>},
      {<<0,0>>, <<1,0>>, <<2,0>>, <<0,1>>},
      {<<0,0>>, <<1,0>>, <<2,0>>, <<2,1>>},
      {<<0,0>>, <<1,0>>, <<2,0>>, <<1,1>>},
      {<<1,0>>, <<0,1>>, <<1,1>>, <<1,2>>},
      {<<1,0>>, <<0,1>>, <<1,1>>, <<2,1>>},
      {<<0,0>>, <<0,1>>, <<0,2>>, <<1,1>>},
      {<<0,0>>, <<1,0>>, <<1,1>>, <<2,1>>},
      {<<1,0>>, <<1,1>>, <<0,1>>, <<0,2>>},
      {<<0,0>>, <<0,1>>, <<1,1>>, <<0,2>>},
      {<<0,0>>, <<0,1>>, <<1,1>>},
      {<<0,1>>, <<1,1>>, <<1,0>>},
      {<<0,0>>, <<1,0>>, <<0,1>>},
      {<<0,0>>, <<1,0>>, <<1,1>>},
      {<<0,0>>, <<1,0>>, <<2,0>>, <<0,1>>, <<1,1>>, <<2,1>>},
      {<<0,0>>, <<1,0>>, <<0,1>>, <<1,1>>, <<0,2>>, <<1,2>>} >>

\* Catalog entry i (P0 .. P25): Piece(cells, name).
P(i) == [cells |-> PIECES[i + 1], name |-> i]

\* make_piece_pool(): every entry of the catalog, in catalog order.
Catalog == [i \in 1 .. Len(PIECES) |-> P(i - 1)]

\* The pool the engine deals from.  The program deals from the whole catalog;
\* the model deals from two entries (P8 and P10), in catalog order.
PIECE_POOL == << P(8), P(10) >>

--------------------------------------------------------------------------
\* Arithmetic helpers

RECURSIVE SeqSum(_)
SeqSum(s) == IF s = << >> THEN 0 ELSE Head(s) + SeqSum(Tail(s))

Max2(a, b) == IF a >= b THEN a ELSE b

Abs(a) == IF a >= 0 THEN a ELSE 0 - a

\* a/b < c/d for a, c >= 0 and b, d > 0, by continued fractions (no products).
RECURSIVE FracLess(_, _, _, _)
FracLess(a, b, c, d) ==
  LET qa == a \div b
      qc == c \div d
      ra == a % b
      rc == c % d
  IN  IF qa # qc THEN qa < qc
      ELSE IF rc = 0 THEN FALSE
      ELSE IF ra = 0 THEN TRUE
      ELSE FracLess(d, rc, b, ra)

--------------------------------------------------------------------------
\* ai.py: the board simulator

EmptyGrid == [y \in Idx |-> [x \in Idx |-> 0]]

can_place(grid, piece, gx, gy) ==
  \A c \in piece.cells :
     LET x == gx + c[1]
         y == gy + c[2]
     IN  /\ ~(x < 0 \/ y < 0 \/ x >= Size \/ y >= Size)
         /\ grid[y][x] # 1

place_piece(grid, piece, gx, gy) ==
  [y \in Idx |-> [x \in Idx |->
     IF \E c \in piece.cells : gx + c[1] = x /\ gy + c[2] = y
     THEN 1 ELSE grid[y][x]]]

\* for c in range(size): grid[r][c] = 0
ClearRow(grid, r) == [grid EXCEPT ![r] = [c \in Idx |-> 0]]

\* for r in range(size): grid[r][c] = 0
ClearCol(grid, c) == [r \in Idx |-> [grid[r] EXCEPT ![c] = 0]]

RECURSIVE ClearRows(_, _)
ClearRows(grid, rows) ==
  IF rows = << >> THEN grid ELSE ClearRows(ClearRow(grid, Head(rows)), Tail(rows))

RECURSIVE ClearCols(_, _)
ClearCols(grid, cols) ==
  IF cols = << >> THEN grid ELSE ClearCols(ClearCol(grid, Head(cols)), Tail(cols))

RowFull(grid, r) == \A c \in Idx : grid[r][c] = 1

ColFull(grid, c) == \A r \in Idx : grid[r][c] = 1

\* [i for i in range(size) if Test(i)], as a sequence in ascending order
RECURSIVE Filter(_, _)
Filter(flags, i) ==
  IF i >= Size THEN << >>
  ELSE IF flags[i] THEN << i >> \o Filter(flags, i + 1)
  ELSE Filter(flags, i + 1)

\* clear_lines with the full columns looked for after the rows were cleared.
clear_lines_rescan(grid) ==
  LET full_rows == Filter([r \in Idx |-> RowFull(grid, r)], 0)
      g1 == ClearRows(grid, full_rows)
      full_cols == Filter([c \in Idx |-> ColFull(g1, c)], 0)
      g2 == ClearCols(g1, full_cols)
  IN  [grid |-> g2, cleared |-> Len(full_rows) + Len(full_cols)]

\* The grid after clearing and the number of lines cleared.
clear_lines(grid) ==
  LET full_rows == Filter([r \in Idx |-> RowFull(grid, r)], 0)
      full_cols == Filter([c \in Idx |-> ColFull(grid, c)], 0)
      g1 == ClearRows(grid, full_rows)
      g2 == ClearCols(g1, full_cols)
  IN  [grid |-> g2, cleared |-> Len(full_rows) + Len(full_cols)]

\* The gain without the multiplier for more than 2 lines.
calculate_score_gain_flat(cleared, combo) ==
  IF cleared <= 0 THEN 0 ELSE 10 * cleared * (combo + 1)

calculate_score_gain(cleared, combo) ==
  IF cleared <= 0 THEN 0
  ELSE LET base  == 10 * cleared
           bonus == base * (combo + 1)
       IN  IF cleared > 2 THEN bonus * (cleared - 1) ELSE bonus

\* None, or the SimulatedState of the move.
simulate_move(state, piece, gx, gy) ==
  IF ~can_place(state.grid, piece, gx, gy) THEN [none |-> TRUE]
  ELSE LET new_grid   == place_piece(state.grid, piece, gx, gy)
           base_gain  == Cardinality(piece.cells)
           cl         == clear_lines(new_grid)
           clear_gain == calculate_score_gain(cl.cleared, state.combo)
       IN  [none |-> FALSE, grid |-> cl.grid, cleared_lines |-> cl.cleared,
            score_gain |-> base_gain + clear_gain,
            piece |-> piece, gx |-> gx, gy |-> gy]

--------------------------------------------------------------------------
\* ai.py: the heuristic evaluator

\* Height of column x: size - (row of its topmost filled cell), 0 if empty.
ColHeight(grid, x) ==
  IF \A y \in Idx : grid[y][x] # 1 THEN 0
  ELSE Size - (CHOOSE y \in Idx : grid[y][x] = 1 /\ \A y2 \in Idx : y2 < y => grid[y2][x] # 1)

calc_holes(grid) ==
  Cardinality({ c \in Idx \X Idx :
     /\ grid[c[2]][c[1]] = 0
     /\ \E y2 \in Idx : y2 < c[2] /\ grid[y2][c[1]] = 1 })

RECURSIVE MaxHeightFrom(_, _, _)
MaxHeightFrom(grid, x, max_h) ==
  IF x >= Size THEN max_h ELSE MaxHeightFrom(grid, x + 1, Max2(max_h, ColHeight(grid, x)))

calc_max_height(grid) == MaxHeightFrom(grid, 0, 0)

\* sum(heights); calc_avg_height is this sum divided by Size.
HeightSum(grid) == SeqSum([i \in 1 .. Size |-> ColHeight(grid, i - 1)])

HeightSquareSum(grid) ==
  SeqSum([i \in 1 .. Size |-> ColHeight(grid, i - 1) * ColHeight(grid, i - 1)])

calc_filled(grid) == Cardinality({ c \in Idx \X Idx : grid[c[2]][c[1]] = 1 })

calc_edge_penalty(grid, piece, gx, gy) ==
  Cardinality({ c \in piece.cells :
     LET x == gx + c[1]
         y == gy + c[2]
     IN  x = 0 \/ x = Size - 1 \/ y = 0 \/ y = Size - 1 })

Dirs == { <<0, 1>>, <<1, 0>>, <<0, 0 - 1>>, <<0 - 1, 0>> }

calc_cluster_score(grid) ==
  Cardinality({ cd \in (Idx \X Idx) \X Dirs :
     LET x  == cd[1][1]
         y  == cd[1][2]
         nx == x + cd[2][1]
         ny == y + cd[2][2]
     IN  /\ grid[y][x] = 1
         /\ 0 <= nx /\ nx < Size /\ 0 <= ny /\ ny < Size
         /\ grid[ny][nx] = 1 })

RowFilled(grid, y) == Cardinality({ x \in Idx : grid[y][x] = 1 })

ColFilled(grid, x) == Cardinality({ y \in Idx : grid[y][x] = 1 })

calc_row_almost_full(grid) ==
  Cardinality({ y \in Idx : Size - 2 <= RowFilled(grid, y) /\ RowFilled(grid, y) < Size })

calc_col_almost_full(grid) ==
  Cardinality({ x \in Idx : Size - 2 <= ColFilled(grid, x) /\ ColFilled(grid, x) < Size })

calc_empty_rows(grid) == Cardinality({ y \in Idx : RowFilled(grid, y) = 0 })

calc_combo_preservation(combo, combo_active, cleared) ==
  IF combo_active /\ cleared > 0 THEN 30 * cleared
  ELSE IF ~combo_active /\ cleared > 0 THEN 10 * cleared
  ELSE 0

calc_piece_fit(grid, piece, gx, gy) ==
  Cardinality({ cd \in piece.cells \X Dirs :
     LET nx == gx + cd[1][1] + cd[2][1]
         ny == gy + cd[1][2] + cd[2][2]
     IN  IF nx < 0 \/ ny < 0 \/ nx >= Size \/ ny >= Size THEN TRUE
         ELSE grid[ny][nx] = 1 })

\* Size^2 * variance of the column heights; calc_diversity is -sqrt(this)/Size.
DiversityRadicand(grid) ==
  Size * HeightSquareSum(grid) - HeightSum(grid) * HeightSum(grid)

\* Weights are stored times 10.
WeightKeys ==
  { "holes", "max_height", "avg_height", "filled", "edge_penalty", "cluster_score",
    "row_almost_full", "col_almost_full", "empty_rows", "combo_preservation",
    "piece_fit", "diversity", "cleared_lines", "immediate_gain" }

\* The default weights without the rewards of a cleared line.
FALLBACK_WEIGHTS_no_clear ==
  [ holes |-> 0 - 80, max_height |-> 0 - 30, avg_height |-> 0 - 10, filled |-> 0 - 3,
    edge_penalty |-> 0 - 20, cluster_score |-> 40, row_almost_full |-> 150,
    col_almost_full |-> 150, empty_rows |-> 50, combo_preservation |-> 0,
    piece_fit |-> 80, diversity |-> 30, cleared_lines |-> 0, immediate_gain |-> 0 ]

FALLBACK_WEIGHTS ==
  [ holes |-> 0 - 80, max_height |-> 0 - 30, avg_height |-> 0 - 10, filled |-> 0 - 3,
    edge_penalty |-> 0 - 20, cluster_score |-> 40, row_almost_full |-> 150,
    col_almost_full |-> 150, empty_rows |-> 50, combo_preservation |-> 500,
    piece_fit |-> 80, diversity |-> 30, cleared_lines |-> 1000, immediate_gain |-> 10 ]

\* The value (p - k*sqrt(d)) / (10*Size) of the weighted sum of the 14 features.
evaluate_move(sim, state, weights) ==
  LET b1  == calc_holes(sim.grid)
      b2  == calc_max_height(sim.grid)
      b3n == HeightSum(sim.grid)
      b4  == calc_filled(sim.grid)
      b5  == calc_edge_penalty(sim.grid, sim.piece, sim.gx, sim.gy)
      b6  == calc_cluster_score(sim.grid)
      b7  == calc_row_almost_full(sim.grid)
      b8  == calc_col_almost_full(sim.grid)
      b9  == calc_empty_rows(sim.grid)
      b10 == calc_combo_preservation(state.combo, state.combo_active, sim.cleared_lines)
      b11 == calc_piece_fit(sim.grid, sim.piece, sim.gx, sim.gy)
      b13 == sim.cleared_lines
      b14 == sim.score_gain
  IN  [ p |-> Size * ( weights.holes * b1
                     + weights.max_height * b2
                     + weights.filled * b4
                     + weights.edge_penalty * b5
                     + weights.cluster_score * b6
                     + weights.row_almost_full * b7
                     + weights.col_almost_full * b8
                     + weights.empty_rows * b9
                     + weights.combo_preservation * b10
                     + weights.piece_fit * b11
                     + weights.cleared_lines * b13
                     + weights.immediate_gain * b14 )
              + weights.avg_height * b3n,
        d |-> DiversityRadicand(sim.grid),
        k |-> weights.diversity ]

\* dd > k*(sqrt(a) - sqrt(b)), exactly, for k >= 0 and a, b >= 0.
RealGt(dd, k, a, b) ==
  LET u == k * k * (a + b) - dd * dd
  IN  IF k = 0 \/ a = b THEN dd > 0
      ELSE IF Abs(dd) > k * Max2(a, b) THEN dd > 0
      ELSE IF a > b
        THEN IF dd <= 0 THEN FALSE
             ELSE IF u <= 0 THEN (u < 0 \/ a * b > 0)
             ELSE a * b > 0 /\ FracLess(u, 4 * k * k * k * k, a * b, u)
        ELSE IF dd >= 0 THEN TRUE
             ELSE u > 0 /\ (a * b = 0 \/ FracLess(a * b, u, u, 4 * k * k * k * k))

\* value v1 > value v2 (both computed with the same weights)
ValueGt(v1, v2) == RealGt(v1.p - v2.p, v1.k, v1.d, v2.d)

--------------------------------------------------------------------------
\* ai.py: move search

\* The n-th candidate of the enumeration: hand slot, then gy, then gx.
CandSlot(n) == n \div (Size * Size)
CandY(n) == (n % (Size * Size)) \div Size
CandX(n) == n % Size

RECURSIVE LegalFrom(_, _)
LegalFrom(state, n) ==
  IF n >= 3 * Size * Size THEN << >>
  ELSE LET piece == state.hand[CandSlot(n)]
       IN  IF piece # None /\ can_place(state.grid, piece, CandX(n), CandY(n))
           THEN << [piece |-> piece, gx |-> CandX(n), gy |-> CandY(n)] >>
                  \o LegalFrom(state, n + 1)
           ELSE LegalFrom(state, n + 1)

\* find_all_legal_moves with "for gy in range(state.size - 1)".
RECURSIVE LegalFromShort(_, _)
LegalFromShort(state, n) ==
  IF n >= 3 * Size * Size THEN << >>
  ELSE LET piece == state.hand[CandSlot(n)]
       IN  IF /\ piece # None
              /\ CandY(n) < Size - 1
              /\ can_place(state.grid, piece, CandX(n), CandY(n))
           THEN << [piece |-> piece, gx |-> CandX(n), gy |-> CandY(n)] >>
                  \o LegalFromShort(state, n + 1)
           ELSE LegalFromShort(state, n + 1)

find_all_legal_moves_short(state) == LegalFromShort(state, 0)

find_all_legal_moves(state) == LegalFrom(state, 0)

\* "no move"
NoMove == [none |-> TRUE]

\* The loop of choose_best_move with "value >= best_value": the last maximum wins.
RECURSIVE BestLoopGe(_, _, _, _, _, _)
BestLoopGe(state, weights, moves, has_best, best_value, best_move) ==
  IF moves = << >> THEN best_move
  ELSE LET m   == Head(moves)
           sim == simulate_move(state, m.piece, m.gx, m.gy)
       IN  IF sim.none
           THEN BestLoopGe(state, weights, Tail(moves), has_best, best_value, best_move)
           ELSE LET value == evaluate_move(sim, state, weights)
                IN  IF ~has_best \/ ~ValueGt(best_value, value)
                    THEN BestLoopGe(state, weights, Tail(moves), TRUE, value,
                                    [none |-> FALSE, slot |-> m.piece.slot,
                                     gx |-> m.gx, gy |-> m.gy])
                    ELSE BestLoopGe(state, weights, Tail(moves), has_best, best_value,
                                    best_move)

\* The loop of choose_best_move over the rest of legal_moves.  best_value starts at
\* -1e18, below every value the model's weights can produce: has_best = FALSE.
RECURSIVE BestLoop(_, _, _, _, _, _)
BestLoop(state, weights, moves, has_best, best_value, best_move) ==
  IF moves = << >> THEN best_move
  ELSE LET m   == Head(moves)
           sim == simulate_move(state, m.piece, m.gx, m.gy)
       IN  IF sim.none
           THEN BestLoop(state, weights, Tail(moves), has_best, best_value, best_move)
           ELSE LET value == evaluate_move(sim, state, weights)
                IN  IF ~has_best \/ ValueGt(value, best_value)
                    THEN BestLoop(state, weights, Tail(moves), TRUE, value,
                                  [none |-> FALSE, slot |-> m.piece.slot,
                                   gx |-> m.gx, gy |-> m.gy])
                    ELSE BestLoop(state, weights, Tail(moves), has_best, best_value,
                                  best_move)

choose_best_move(state, weights) ==
  LET legal_moves == find_all_legal_moves(state)
  IN  IF legal_moves = << >> THEN NoMove
      ELSE BestLoop(state, weights, legal_moves, FALSE, [p |-> 0, d |-> 0, k |-> 0], NoMove)

--------------------------------------------------------------------------
\* game.py: the engine.  A Game is the record of its fields (size is Size).

\* A test of the bounds of the board only.
Game_can_place_bounds(game, piece, gx, gy) ==
  \A c \in piece.cells :
     LET x == gx + c[1]
         y == gy + c[2]
     IN  ~(x < 0 \/ y < 0 \/ x >= Size \/ y >= Size)

Game_can_place(game, piece, gx, gy) ==
  \A c \in piece.cells :
     LET x == gx + c[1]
         y == gy + c[2]
     IN  /\ ~(x < 0 \/ y < 0 \/ x >= Size \/ y >= Size)
         /\ game.grid[y][x] # 1

\* A test of the bounds of the board only, on a grid.
Game_can_place_on_bounds(grid, piece, gx, gy) ==
  \A c \in piece.cells :
     LET x == gx + c[1]
         y == gy + c[2]
     IN  ~(x < 0 \/ y < 0 \/ x >= Size \/ y >= Size)

Game_can_place_on(grid, piece, gx, gy) ==
  \A c \in piece.cells :
     LET x == gx + c[1]
         y == gy + c[2]
     IN  /\ ~(x < 0 \/ y < 0 \/ x >= Size \/ y >= Size)
         /\ grid[y][x] # 1

\* The row loop clears each full row as it meets it; the column loop then tests
\* the columns of the grid the row loop left.
RECURSIVE SimRows(_, _)
SimRows(grid, r) ==
  IF r >= Size THEN grid
  ELSE IF RowFull(grid, r) THEN SimRows(ClearRow(grid, r), r + 1)
  ELSE SimRows(grid, r + 1)

RECURSIVE SimCols(_, _)
SimCols(grid, c) ==
  IF c >= Size THEN grid
  ELSE IF ColFull(grid, c) THEN SimCols(ClearCol(grid, c), c + 1)
  ELSE SimCols(grid, c + 1)

Game_simulate_on(grid, piece, gx, gy) ==
  LET new_grid == [y \in Idx |-> [x \in Idx |->
                     IF \E c \in piece.cells : gx + c[1] = x /\ gy + c[2] = y
                     THEN 1 ELSE grid[y][x]]]
  IN  SimCols(SimRows(new_grid, 0), 0)

Game_any_move_available_for_pieces(game, pieces) ==
  \E p \in pieces : \E y \in Idx : \E x \in Idx : Game_can_place(game, p, x, y)

Game_any_move_available(game) ==
  LET pieces == { game.hand[i] : i \in 0 .. 2 } \ { None }
  IN  IF pieces = {} THEN TRUE
      ELSE Game_any_move_available_for_pieces(game, pieces)

\* The scan "for y: for x: if _can_place_on(...)": cell number n is (n % Size, n \div Size).
HasFit(grid, piece) ==
  \E n \in 0 .. (Size * Size - 1) : Game_can_place_on(grid, piece, n % Size, n \div Size)

FirstFit(grid, piece) ==
  CHOOSE n \in 0 .. (Size * Size - 1) :
     /\ Game_can_place_on(grid, piece, n % Size, n \div Size)
     /\ \A m \in 0 .. (Size * Size - 1) :
           m < n => ~Game_can_place_on(grid, piece, m % Size, m \div Size)

SimFirstFit(grid, piece) ==
  Game_simulate_on(grid, piece, FirstFit(grid, piece) % Size, FirstFit(grid, piece) \div Size)

\* min(pool, key=lambda p: len(p.cells)): the first entry of minimal size
SmallestOf(pool) ==
  pool[CHOOSE i \in 1 .. Len(pool) :
     /\ \A j \in 1 .. Len(pool) :
           Cardinality(pool[i].cells) <= Cardinality(pool[j].cells)
     /\ \A j \in 1 .. (i - 1) :
           Cardinality(pool[j].cells) > Cardinality(pool[i].cells)]

Smallest == SmallestOf(PIECE_POOL)

\* The hands deal_hand_full(ensure_playable=True) can deal from the pool, as
\* sequences of 3 pieces.  rng.shuffle(remaining) makes any placeable piece of
\* `remaining` the first one met; rng.choice(PIECE_POOL) is any entry of the pool.
RECURSIVE DealFromPool(_, _, _, _)
DealFromPool(pool, current_grid, remaining, next_hand) ==
  IF Len(next_hand) = 3 THEN { next_hand }
  ELSE LET fits == { i \in remaining : HasFit(current_grid, pool[i]) }
       IN  IF fits # {}
           THEN UNION { DealFromPool(pool, SimFirstFit(current_grid, pool[i]),
                                     remaining \ { i },
                                     Append(next_hand, pool[i])) : i \in fits }
           ELSE IF HasFit(current_grid, SmallestOf(pool))
           THEN DealFromPool(pool, SimFirstFit(current_grid, SmallestOf(pool)), remaining,
                             Append(next_hand, SmallestOf(pool)))
           ELSE UNION { DealFromPool(pool, current_grid, remaining,
                                     Append(next_hand, pool[i])) :
                        i \in 1 .. Len(pool) }

DealFrom(current_grid, remaining, next_hand) ==
  DealFromPool(PIECE_POOL, current_grid, remaining, next_hand)

\* The values self.hand can take in deal_hand_full with the pool, as functions
\* on 0 .. 2.
deal_hand_full_of(pool, game) ==
  { [i \in 0 .. 2 |-> h[i + 1]] : h \in DealFromPool(pool, game.grid, 1 .. Len(pool), << >>) }

\* The values self.hand can take in deal_hand_full, as functions on 0 .. 2.
deal_hand_full(game) == deal_hand_full_of(PIECE_POOL, game)

Game_clear_lines(game) ==
  LET full_rows == Filter([r \in Idx |-> RowFull(game.grid, r)], 0)
      full_cols == Filter([c \in Idx |-> ColFull(game.grid, c)], 0)
      g1 == ClearRows(game.grid, full_rows)
      g2 == ClearCols(g1, full_cols)
  IN  [game |-> [game EXCEPT !.grid = g2], cleared |-> Len(full_rows) + Len(full_cols)]

AllClearBonus == 300

Game_score_clears(game, cleared) ==
  IF cleared <= 0 THEN game
  ELSE LET base_points == 10 * cleared
           bonus0 == base_points * (game.combo + 1)
           bonus1 == IF cleared > 2 THEN bonus0 * (cleared - 1) ELSE bonus0
           all_clear == \A r \in Idx : \A c \in Idx : game.grid[r][c] = 0
           bonus == IF all_clear THEN bonus1 + AllClearBonus ELSE bonus1
       IN  [game EXCEPT !.score = game.score + bonus,
                        !.combo = game.combo + cleared,
                        !.combo_streak = TRUE]

\* Game() before it deals its first hand.
NewGameFields ==
  [ grid |-> EmptyGrid, score |-> 0, hand |-> [i \in 0 .. 2 |-> None],
    combo |-> 0, combo_streak |-> FALSE, hand_clears |-> 0,
    prev_hand_had_clear |-> FALSE, last_action_score |-> 0, last_lines_cleared |-> 0 ]

\* The games Game(size=BOARD_SIZE) can construct.
Game_init == { [NewGameFields EXCEPT !.hand = h] : h \in deal_hand_full(NewGameFields) }

\* The end of place(): the bookkeeping of a hand whose last piece was placed.
HandEnd(game) ==
  LET g1 == IF game.hand_clears = 0
            THEN [game EXCEPT !.combo = 0, !.prev_hand_had_clear = FALSE]
            ELSE LET c1 == IF game.combo = 0
                              /\ (game.prev_hand_had_clear \/ game.hand_clears >= 2)
                           THEN 1 ELSE game.combo
                     c2 == IF c1 > 0 THEN c1 + game.hand_clears ELSE c1
                 IN  [game EXCEPT !.combo = c2, !.prev_hand_had_clear = TRUE]
  IN  [g1 EXCEPT !.hand_clears = 0]

\* place(slot_index, gx, gy): the set of [ok, game] it can end with (one, unless
\* it deals a new hand).
Game_place(game, slot_index, gx, gy) ==
  IF ~(0 <= slot_index /\ slot_index < 3) THEN { [ok |-> FALSE, game |-> game] }
  ELSE LET piece == game.hand[slot_index]
       IN  IF piece = None THEN { [ok |-> FALSE, game |-> game] }
           ELSE IF ~Game_can_place(game, piece, gx, gy)
           THEN { [ok |-> FALSE, game |-> game] }
           ELSE LET score_before == game.score
                    g1 == [game EXCEPT
                             !.grid = [y \in Idx |-> [x \in Idx |->
                                IF \E c \in piece.cells : gx + c[1] = x /\ gy + c[2] = y
                                THEN 1 ELSE game.grid[y][x]]],
                             !.score = game.score + Cardinality(piece.cells)]
                    cl == Game_clear_lines(g1)
                    g2 == [cl.game EXCEPT !.last_lines_cleared = cl.cleared]
                    g3 == Game_score_clears(g2, cl.cleared)
                    g4 == [g3 EXCEPT !.last_action_score = g3.score - score_before,
                                     !.hand_clears = g3.hand_clears + cl.cleared,
                                     !.hand[slot_index] = None]
               IN  IF \A i \in 0 .. 2 : g4.hand[i] = None
                   THEN { [ok |-> TRUE, game |-> [HandEnd(g4) EXCEPT !.hand = h]] :
                          h \in deal_hand_full(HandEnd(g4)) }
                   ELSE { [ok |-> TRUE, game |-> g4] }

--------------------------------------------------------------------------
\* state_io.py and ai.load_state: the snapshot file

\* A file is absent, holds a prefix of a payload being written (open(path, "w")
\* truncates, json.dump then writes), or holds a whole payload.
Absent == [kind |-> "absent"]
Partial == [kind |-> "partial"]
Whole(data) == [kind |-> "json", data |-> data]

MaxCoord(cells, i) == CHOOSE m \in { c[i] : c \in cells } : \A c \in cells : c[i] <= m

piece_to_dict(p) ==
  [ name |-> p.name, cells |-> p.cells,
    w |-> 1 + MaxCoord(p.cells, 1), h |-> 1 + MaxCoord(p.cells, 2) ]

\* The dictionary of build_state_dict, without meta (version, timestamp).
build_state_dict(game, game_over) ==
  [ board |-> [size |-> Size, grid |-> game.grid],
    score |-> game.score,
    hand |-> [slot_i \in 0 .. 2 |->
                IF game.hand[slot_i] = None
                THEN [slot |-> slot_i, empty |-> TRUE, piece |-> None]
                ELSE [slot |-> slot_i, empty |-> FALSE,
                      piece |-> piece_to_dict(game.hand[slot_i])]],
    combo |-> [combo |-> game.combo, combo_active |-> game.combo > 0],
    status |-> [game_over |-> game_over,
                any_move_available |-> Game_any_move_available(game)] ]

\* The grid and the cells of the three hand slots of a game or a GameState.
BoardAndHand(g) == [grid |-> g.grid, cells |-> [s \in 0 .. 2 |-> g.hand[s].cells]]

\* load_state's None
NoState == [none |-> TRUE]

\* Lines 95-125 of load_state: the GameState of a parsed snapshot.
ParseState(data) ==
  [ none |-> FALSE,
    grid |-> data.board.grid,
    hand |-> [slot_idx \in 0 .. 2 |->
                IF \E i \in 0 .. 2 : /\ data.hand[i].slot = slot_idx
                                      /\ ~data.hand[i].empty
                                      /\ data.hand[i].piece # None
                THEN LET i == CHOOSE i \in 0 .. 2 : /\ data.hand[i].slot = slot_idx
                                                    /\ ~data.hand[i].empty
                                                    /\ data.hand[i].piece # None
                     IN  [cells |-> data.hand[i].piece.cells, slot |-> slot_idx]
                ELSE None],
    combo |-> data.combo.combo,
    combo_active |-> data.combo.combo_active,
    score |-> data.score,
    size |-> data.board.size ]

\* load_state(path) on the file's content: a missing file (FileNotFoundError), a
\* payload that does not parse (JSONDecodeError) and a terminal status give None.
load_state(file) ==
  IF file.kind # "json" THEN NoState
  ELSE IF file.data.status.game_over \/ ~file.data.status.any_move_available THEN NoState
  ELSE ParseState(file.data)

--------------------------------------------------------------------------
\* ai_trainer.py: the genetic trainer

POPULATION_SIZE == 10

TOP_KEEP == 2

Members == 0 .. (POPULATION_SIZE - 1)

\* BOUNDS, times 10: the least and the greatest value of every weight.
BoundsLo ==
  [ holes |-> 0 - 150, max_height |-> 0 - 80, avg_height |-> 0 - 50, filled |-> 0 - 20,
    edge_penalty |-> 0 - 50, cluster_score |-> 0, row_almost_full |-> 50,
    col_almost_full |-> 50, empty_rows |-> 0, combo_preservation |-> 200,
    piece_fit |-> 20, diversity |-> 0, cleared_lines |-> 500, immediate_gain |-> 0 ]

BoundsHi ==
  [ holes |-> 0 - 10, max_height |-> 0 - 5, avg_height |-> 0 - 1, filled |-> 0,
    edge_penalty |-> 0, cluster_score |-> 100, row_almost_full |-> 300,
    col_almost_full |-> 300, empty_rows |-> 150, combo_preservation |-> 1000,
    piece_fit |-> 200, diversity |-> 100, cleared_lines |-> 2000, immediate_gain |-> 50 ]

\* A fitness value is the fraction num/den (den > 0); weights are scaled by 10.
Zero == [num |-> 0, den |-> 1]

FitGt(f1, f2) == f1.num * f2.den > f2.num * f1.den

\* A dict is a function on its keys; {} is the function with no key.
EmptyDict == << >>

RECURSIVE DictSum(_, _, _)
DictSum(d, keys, field) ==
  IF keys = {} THEN 0
  ELSE LET k == CHOOSE k \in keys : TRUE
       IN  d[k][field] + DictSum(d, keys \ {k}, field)

\* "not load_json(path)": the file is missing, does not parse, or holds {} or []
Falsy(file) == file.kind # "json" \/ DOMAIN file.data = {}

\* moves + combo * 0.4 + score * 0.001 over the means of the batch, as a fraction
calc_fitness(stats) ==
  IF DOMAIN stats = {} THEN Zero
  ELSE [ num |-> 1000 * DictSum(stats, DOMAIN stats, "Moves")
                  + 400 * DictSum(stats, DOMAIN stats, "Max_Combo")
                  + DictSum(stats, DOMAIN stats, "Score"),
         den |-> 1000 * Cardinality(DOMAIN stats) ]

\* A value left as it is.
ClampOff(mn, mx, v) == v

\* max(mn, min(mx, v))
Clamp(mn, mx, v) == IF v < mn THEN mn ELSE IF v > mx THEN mx ELSE v

\* mutate(w): hit[k] says random() < MUTATE_RATE for key k, by[k] is the draw of
\* uniform(-delta, delta)
mutate(w, hit, by) ==
  [k \in WeightKeys |->
     IF hit[k] THEN Clamp(BoundsLo[k], BoundsHi[k], w[k] + by[k]) ELSE w[k]]

\* crossover(w1, w2): first[k] says random() < 0.5 for key k
crossover(w1, w2, first) == [k \in WeightKeys |-> IF first[k] THEN w1[k] ELSE w2[k]]

\* The place of member i after population.sort(key=f, reverse=True), a stable sort.
SortPlace(population, i) ==
  Cardinality({ j \in Members :
                  \/ FitGt(population[j].f, population[i].f)
                  \/ ~FitGt(population[i].f, population[j].f) /\ j < i })

\* The population in the order it has.
SortNone(population) == population

SortDesc(population) ==
  [r \in Members |-> population[CHOOSE i \in Members : SortPlace(population, i) = r]]

\* A best fitness read as 0 whatever the file holds.
best_fitness_zero(file) == Zero

\* best_fitness of lines 108-115, from the file of the best member so far
best_fitness(file) ==
  IF file.kind # "json" THEN Zero
  ELSE IF "f" \notin DOMAIN file.data THEN Zero
  ELSE file.data.f

\* Lines 135-140 without the search: the index after the current one, or 0 at
\* the end of the population.
NextIndexNoSearch(population, current_idx) ==
  IF current_idx + 1 >= Cardinality(DOMAIN population) THEN 0 ELSE current_idx + 1

\* Lines 135-140: the first index after current_idx whose member has fitness 0,
\* or 0 when the search runs off the end of the population.
NextIndex(population, current_idx) ==
  LET after == { j \in DOMAIN population : j > current_idx /\ ~(population[j].f.num > 0) }
  IN  IF after = {} THEN 0
      ELSE CHOOSE j \in after : \A m \in after : j <= m

\* The child appended as member i of the new population (line 129).
Child(sorted, rnd, i) ==
  [w |-> mutate(crossover(sorted[rnd.p1[i]].w, sorted[rnd.p2[i]].w, rnd.first[i]),
                rnd.hit[i], rnd.by[i]),
   f |-> Zero]

\* A refill that stops one member early.
RECURSIVE RefillShort(_, _, _)
RefillShort(new_pop, sorted, rnd) ==
  LET n == Cardinality(DOMAIN new_pop)
  IN  IF n < POPULATION_SIZE - 1
      THEN RefillShort(new_pop @@ (n :> Child(sorted, rnd, n)), sorted, rnd)
      ELSE new_pop

\* while len(new_pop) < POPULATION_SIZE: new_pop.append(child)
RECURSIVE Refill(_, _, _)
Refill(new_pop, sorted, rnd) ==
  LET n == Cardinality(DOMAIN new_pop)
  IN  IF n < POPULATION_SIZE
      THEN Refill(new_pop @@ (n :> Child(sorted, rnd, n)), sorted, rnd)
      ELSE new_pop

\* The population train() works on: the one of the file, or lines 91-94.
LoadedPopulation(files, rnd) ==
  LET current_weights == IF Falsy(files["weights.json"]) THEN rnd.current
                         ELSE files["weights.json"].data
  IN  IF Falsy(files["population.json"])
      THEN [i \in Members |->
              [w |-> IF i = 0 THEN current_weights ELSE rnd.init[i], f |-> Zero]]
      ELSE files["population.json"].data

\* The cursor train() works on: the one of the file, or 0 (lines 95-98).
LoadedIndex(files) ==
  IF Falsy(files["population.json"]) \/ files["current_index.json"].kind # "json" THEN 0
  ELSE files["current_index.json"].data.value

\* A generation that is never complete.
all_evaluated_never(population) == FALSE

\* all(p['f'] > 0 for p in population)
all_evaluated(population) == \A i \in DOMAIN population : population[i].f.num > 0

\* The population of train() once the fitness of the batch is assigned (line 101).
Evaluated(files, rnd) ==
  [LoadedPopulation(files, rnd) EXCEPT
     ![LoadedIndex(files)].f = calc_fitness(files["stats.json"].data)]

\* train() on the files; rnd holds the draws of the random generator:
\* current and init (random_weights), p1 and p2 (random.choice), first, hit and by.
train(files, rnd) ==
  LET index1 == LoadedIndex(files)
      population2 == Evaluated(files, rnd)
      sorted == SortDesc(population2)
      record == FitGt(sorted[0].f, best_fitness(files["best_weights.json"]))
      new_pop == Refill([i \in 0 .. (TOP_KEEP - 1) |-> sorted[i]], sorted, rnd)
      population3 == IF all_evaluated(population2) THEN new_pop ELSE population2
      index3 == IF all_evaluated(population2) THEN 0 ELSE NextIndex(population2, index1)
      files1 == IF all_evaluated(population2) /\ record
                THEN [files EXCEPT
                        !["best_weights.json"] = Whole([w |-> sorted[0].w, f |-> sorted[0].f])]
                ELSE files
  IN  IF Falsy(files["stats.json"]) THEN files
      ELSE [files1 EXCEPT !["population.json"] = Whole(population3),
                          !["current_index.json"] = Whole([value |-> index3]),
                          !["weights.json"] = Whole(population3[index3].w)]

\* The keys of a file whose values are not numbers (float() raises on them);
\* a file carries them in the field nan, and has none without it.
NotNumbers(file) == IF "nan" \in DOMAIN file THEN file.nan ELSE {}

\* load_weights without the test of the keys.
load_weights_unchecked(file, fallback) ==
  IF file.kind # "json" THEN fallback ELSE file.data

\* load_weights(path, fallback): a file that does not open or parse, lacks a key
\* of the fallback, or holds a value float() refuses gives the fallback.
load_weights(file, fallback) ==
  IF file.kind # "json" THEN fallback
  ELSE IF \E k \in DOMAIN fallback : k \notin DOMAIN file.data THEN fallback
  ELSE IF NotNumbers(file) \cap DOMAIN file.data # {} THEN fallback
  ELSE file.data

\* The draws of the random generator a run of train() is explored with:
\* random_weights() gives a corner of BOUNDS, the parents are the best or the
\* last of the better half, a child takes every key from one parent, and a
\* mutation moves every key or none by the whole of delta.
WeightPool == { BoundsLo, BoundsHi }

\* One outcome of the draws of a run.
Draw(c, a, b, pa, pb, fi, h, sg) ==
  [ current |-> c,
    init |-> [i \in Members |-> IF i % 2 = 0 THEN a ELSE b],
    p1 |-> [i \in Members |-> pa],
    p2 |-> [i \in Members |-> pb],
    first |-> [i \in Members |-> [k \in WeightKeys |-> fi]],
    hit |-> [i \in Members |-> [k \in WeightKeys |-> h]],
    by |-> [i \in Members |->
              [k \in WeightKeys |-> sg * ((BoundsHi[k] - BoundsLo[k]) \div 4)]] ]

TrainChoices ==
  { Draw(c, a, b, pa, pb, fi, h, sg) :
    c \in WeightPool, a \in WeightPool, b \in WeightPool,
    pa \in { 0, (POPULATION_SIZE \div 2) - 1 }, pb \in { 0, (POPULATION_SIZE \div 2) - 1 },
    fi \in BOOLEAN, h \in BOOLEAN, sg \in { 0 - 1, 1 } }

--------------------------------------------------------------------------
\* State

STATE_PATH == "state.json"
ACTION_PATH == "action.json"
RESTART_PATH == "restart.json"
WEIGHTS_PATH == "weights.json"
GENERIC_PATH == "stats.json"

\* write_action with the payload written straight to the canonical path
tmp_path_canonical == "action.json"

\* tmp_path of write_action
tmp_path == "action.json.tmp"

\* The files of the working directory.
Paths ==
  { STATE_PATH, ACTION_PATH, tmp_path, RESTART_PATH, WEIGHTS_PATH, GENERIC_PATH,
    "population.json", "current_index.json", "best_weights.json" }

VARIABLES
  fs,         \* the files: path -> Absent, Partial or Whole(payload)
  ui,         \* the game process: its position and the locals of run()
  ag,         \* the agent process: its position and the locals of main()
  enabled,    \* Toggle.enabled
  gh,         \* history, read by the properties only
  b_game,     \* function checks: the Game the functions are applied to
  b_op,       \* function checks: the function applied ("init" before any)
  b_arg,      \* function checks: its arguments
  b_out       \* function checks: its result (trainer: the history of the runs)

boardVars == << b_game, b_op, b_arg, b_out >>

sysVars == << fs, ui, ag, enabled, gh >>

vars == << fs, ui, ag, enabled, gh, b_game, b_op, b_arg, b_out >>

\* Bounds of the exploration
MaxMoves == 2         \* placements applied to one game
MaxMoveId == 2        \* greatest move_id the agent reaches
MaxFinal == 2         \* finalizations in one run of the agent
MaxStarts == 2        \* starts of the agent process
MaxRestartFinal == 1  \* finalizations of an agent that is started again
MaxBatchFinal == 18   \* finalizations of the agent, game process not running

\* max_retries of write_action
max_retries == 5

\* No action being read or written.
NoAction == [none |-> TRUE]

\* The agent process is not running: it has no locals.
AgentOff ==
  [ pc |-> "off", move_id |-> 0, game |-> 0, generic |-> 0, max_combo |-> 0,
    max_score |-> 0, weights |-> FALLBACK_WEIGHTS, stats |-> EmptyDict,
    action |-> NoAction, attempt |-> 0 ]

InitSys ==
  /\ fs = [p \in Paths |-> Absent]
  /\ ui = [ pc |-> "start", ret |-> "none", game |-> NewGameFields, game_over |-> FALSE,
            last_move_id |-> 0 - 1, action |-> Absent ]
  /\ ag = AgentOff
  /\ enabled = FALSE
  /\ gh = [ starts |-> 0, moves |-> 0, n_final |-> 0, fin_game |-> 0, batch |-> 0,
            trained |-> 0, last_batch |-> 0, pub_run |-> 0, pub_game |-> 0,
            serial |-> 0, applied |-> {}, stale |-> FALSE, read |-> {},
            off_pub |-> 0 ]

--------------------------------------------------------------------------
\* ui.py: the game process.  Keyboard and mouse input is not modelled.

\* An action is handled when its id is greater than the last one handled
\* (the variant takes an equal id too).
NotHandledGe(move_id_int, last_move_id) == move_id_int < last_move_id

\* "move_id_int <= last_move_id" of apply_ai_action_if_any
AlreadyHandled(move_id_int, last_move_id) == move_id_int <= last_move_id

\* A removal that leaves the file where it is.
try_delete_file_keep(files, path) == files

\* try_delete_file(path)
try_delete_file(files, path) == [files EXCEPT ![path] = Absent]

\* run() up to the first write_state_json
UiStart ==
  /\ ui.pc = "start"
  /\ \E g \in Game_init :
        ui' = [ui EXCEPT !.pc = "write_open", !.ret = "apply", !.game = g,
                         !.game_over = FALSE, !.last_move_id = 0 - 1]
  /\ gh' = [gh EXCEPT !.moves = 0, !.fin_game = 0]
  /\ UNCHANGED << fs, ag, enabled, boardVars >>

\* write_state_json: open(path, "w") truncates the snapshot file
UiWriteOpen ==
  /\ ui.pc = "write_open"
  /\ fs' = [fs EXCEPT ![STATE_PATH] = Partial]
  /\ ui' = [ui EXCEPT !.pc = "write_dump"]
  /\ UNCHANGED << ag, enabled, gh, boardVars >>

\* write_state_json: json.dump and close
UiWriteDump ==
  /\ ui.pc = "write_dump"
  /\ fs' = [fs EXCEPT ![STATE_PATH] = Whole(build_state_dict(ui.game, ui.game_over))]
  /\ ui' = [ui EXCEPT !.pc = ui.ret, !.ret = "none"]
  /\ UNCHANGED << ag, enabled, gh, boardVars >>

\* apply_ai_action_if_any up to the opening of the action file
UiApply ==
  /\ ui.pc = "apply"
  /\ ui.game_over \/ gh.moves < MaxMoves
  /\ IF ui.game_over
     THEN /\ fs' = try_delete_file(fs, ACTION_PATH)
          /\ ui' = [ui EXCEPT !.pc = "check_restart"]
          /\ UNCHANGED gh
     ELSE IF fs[ACTION_PATH] = Absent
     THEN /\ ui' = [ui EXCEPT !.pc = "check_restart"]
          /\ UNCHANGED << fs, gh >>
     ELSE /\ ui' = [ui EXCEPT !.pc = "reading", !.action = fs[ACTION_PATH]]
          /\ gh' = IF fs[ACTION_PATH].kind = "json"
                   THEN [gh EXCEPT !.read = @ \cup { fs[ACTION_PATH].data.serial }]
                   ELSE gh
          /\ UNCHANGED fs
  /\ UNCHANGED << ag, enabled, boardVars >>

\* apply_ai_action_if_any from the id check on, for the action a read from the
\* file: the outcomes, each with the game, the last handled id and ok, which says
\* that Game.place returned True (a new snapshot is then written).
apply_ai_action(game, last_move_id, a) ==
  LET move_id_int == a.move_id
      in_range == /\ 0 <= a.slot /\ a.slot < 3
                  /\ 0 <= a.gx /\ a.gx < Size
                  /\ 0 <= a.gy /\ a.gy < Size
  IN  IF AlreadyHandled(move_id_int, last_move_id)
      THEN { [kind |-> "stale", ok |-> FALSE, game |-> game,
              last_move_id |-> last_move_id] }
      ELSE IF \/ ~in_range
              \/ game.hand[a.slot] = None
              \/ ~Game_can_place(game, game.hand[a.slot], a.gx, a.gy)
      THEN { [kind |-> "rejected", ok |-> FALSE, game |-> game,
              last_move_id |-> move_id_int] }
      ELSE { [kind |-> "placed", ok |-> r.ok, game |-> r.game,
              last_move_id |-> move_id_int] :
             r \in Game_place(game, a.slot, a.gx, a.gy) }

\* The rest of apply_ai_action_if_any: json.load of the opened file, the checks,
\* Game.place, the removal of the action file.
UiHandle ==
  /\ ui.pc = "reading"
  /\ IF ui.action.kind # "json"
     THEN /\ ui' = [ui EXCEPT !.pc = "check_restart", !.action = Absent]
          /\ UNCHANGED << fs, gh >>
     ELSE \E r \in apply_ai_action(ui.game, ui.last_move_id, ui.action.data) :
            /\ fs' = try_delete_file(fs, ACTION_PATH)
            /\ ui' = [ui EXCEPT
                        !.pc = IF r.ok THEN "write_open" ELSE "check_restart",
                        !.ret = IF r.ok THEN "check_restart" ELSE "none",
                        !.action = Absent,
                        !.game = r.game,
                        !.game_over = IF r.ok THEN ~Game_any_move_available(r.game)
                                      ELSE ui.game_over,
                        !.last_move_id = r.last_move_id]
            /\ gh' = IF r.kind = "stale" THEN [gh EXCEPT !.stale = TRUE]
                     ELSE IF r.kind = "rejected" THEN gh
                     ELSE [gh EXCEPT !.moves = @ + 1,
                                     !.applied = @ \cup { ui.action.data.serial }]
  /\ UNCHANGED << ag, enabled, boardVars >>

\* check_restart.  Removing a file the agent holds open for writing unlinks it or
\* fails, by the platform.
UiCheckRestart ==
  /\ ui.pc = "check_restart"
  /\ IF fs[RESTART_PATH] = Absent
     THEN /\ ui' = [ui EXCEPT !.pc = "apply"]
          /\ UNCHANGED << fs, gh >>
     ELSE IF fs[RESTART_PATH].kind # "json"
     THEN /\ ui' = [ui EXCEPT !.pc = "apply"]
          /\ \/ fs' = [fs EXCEPT ![RESTART_PATH] = Absent]
             \/ ag.pc = "restart_dump" /\ UNCHANGED fs
          /\ UNCHANGED gh
     ELSE IF ~fs[RESTART_PATH].data.restart
     THEN /\ ui' = [ui EXCEPT !.pc = "apply"]
          /\ fs' = [fs EXCEPT ![RESTART_PATH] = Absent]
          /\ UNCHANGED gh
     ELSE /\ \E g \in Game_init :
                ui' = [ui EXCEPT !.pc = "write_open", !.ret = "apply", !.game = g,
                                 !.game_over = FALSE, !.last_move_id = 0 - 1]
          /\ fs' = try_delete_file(try_delete_file(fs, RESTART_PATH), ACTION_PATH)
          /\ gh' = [gh EXCEPT !.moves = 0, !.fin_game = 0]
  /\ UNCHANGED << ag, enabled, boardVars >>

--------------------------------------------------------------------------
\* ai.py: the agent process

\* A counter that is never incremented.
SameMoveId(move_id) == move_id

\* move_id += 1
NextMoveId(move_id) == move_id + 1

\* main() up to the loop
AgentStart ==
  /\ ag.pc = "off"
  /\ ag' = [ pc |-> "loop", move_id |-> 0, game |-> 4, generic |-> 1, max_combo |-> 0,
             max_score |-> 0, weights |-> load_weights(fs[WEIGHTS_PATH], FALLBACK_WEIGHTS),
             stats |-> IF fs[GENERIC_PATH].kind = "json" THEN fs[GENERIC_PATH].data
                       ELSE EmptyDict,
             action |-> NoAction, attempt |-> 0 ]
  /\ enabled' = FALSE
  /\ gh' = [gh EXCEPT !.starts = @ + 1, !.batch = 0, !.pub_run = 0, !.pub_game = 0,
                      !.off_pub = 0]
  /\ UNCHANGED << fs, ui, boardVars >>

\* console_thread: "on"
ConsoleOn ==
  /\ ag.pc # "off"
  /\ ~enabled
  /\ enabled' = TRUE
  /\ gh' = [gh EXCEPT !.off_pub = 0]
  /\ UNCHANGED << fs, ui, ag, boardVars >>

\* console_thread: "off"
ConsoleOff ==
  /\ ag.pc # "off"
  /\ enabled
  /\ enabled' = FALSE
  /\ gh' = [gh EXCEPT !.off_pub = 0]
  /\ UNCHANGED << fs, ui, ag, boardVars >>

\* console_thread: "quit" ends the process wherever main() is
ConsoleQuit ==
  /\ ag.pc # "off"
  /\ enabled' = FALSE
  /\ ag' = AgentOff
  /\ gh' = [gh EXCEPT !.off_pub = 0]
  /\ UNCHANGED << fs, ui, boardVars >>

\* A toggle that always reads on.
Toggle_get_on(flag) == TRUE

\* Toggle.get()
Toggle_get(flag) == flag

\* The head of the loop: the toggle, the trainer check of lines 561-564, the sleep
AgentLoop ==
  /\ ag.pc = "loop"
  /\ Toggle_get(enabled)
  /\ IF ag.game = 1 /\ ag.generic = 1 /\ ag.move_id = 0 /\ ~Falsy(fs[GENERIC_PATH])
     THEN \E rnd \in TrainChoices :
            /\ fs' = train(fs, rnd)
            /\ ag' = [ag EXCEPT !.pc = "poll",
                                !.weights = load_weights(fs'[WEIGHTS_PATH], FALLBACK_WEIGHTS)]
     ELSE /\ ag' = [ag EXCEPT !.pc = "poll"]
          /\ UNCHANGED fs
  /\ UNCHANGED << ui, enabled, gh, boardVars >>

\* load_state gave None: lines 570-590, up to the opening of the restart file
AgentFinalize ==
  /\ ag.pc = "poll"
  /\ load_state(fs[STATE_PATH]).none
  /\ LET stats1 == (ag.game :> [Moves |-> ag.move_id, Score |-> ag.max_score,
                                Max_Combo |-> ag.max_combo]) @@ ag.stats
         fs1 == [fs EXCEPT ![GENERIC_PATH] = Whole(stats1)]
     IN  IF ag.game + 1 > 10
         THEN \E rnd \in TrainChoices :
                /\ fs' = train(fs1, rnd)
                /\ ag' = [ag EXCEPT
                            !.pc = "restart_open", !.move_id = 0, !.max_combo = 0,
                            !.max_score = 0,
                            !.weights = load_weights(fs'[WEIGHTS_PATH], FALLBACK_WEIGHTS),
                            !.generic = @ + 1, !.game = 1, !.stats = EmptyDict]
                /\ gh' = [gh EXCEPT !.n_final = @ + 1, !.fin_game = @ + 1, !.pub_game = 0,
                                    !.batch = 0, !.trained = @ + 1,
                                    !.last_batch = gh.batch + 1,
                                    !.off_pub = IF enabled THEN @ ELSE @ + 1]
         ELSE /\ fs' = fs1
              /\ ag' = [ag EXCEPT !.pc = "restart_open", !.move_id = 0, !.max_combo = 0,
                                  !.max_score = 0, !.game = @ + 1, !.stats = stats1]
              /\ gh' = [gh EXCEPT !.n_final = @ + 1, !.fin_game = @ + 1, !.pub_game = 0,
                                  !.batch = @ + 1,
                                  !.off_pub = IF enabled THEN @ ELSE @ + 1]
  /\ UNCHANGED << ui, enabled, boardVars >>

\* open(RESTART_PATH, "w")
AgentRestartOpen ==
  /\ ag.pc = "restart_open"
  /\ fs' = [fs EXCEPT ![RESTART_PATH] = Partial]
  /\ ag' = [ag EXCEPT !.pc = "restart_dump"]
  /\ UNCHANGED << ui, enabled, gh, boardVars >>

\* json.dump({"restart": True}) and close; the payload of a file unlinked since
\* it was opened is lost
AgentRestartDump ==
  /\ ag.pc = "restart_dump"
  /\ fs' = IF fs[RESTART_PATH] = Absent THEN fs
           ELSE [fs EXCEPT ![RESTART_PATH] = Whole([restart |-> TRUE])]
  /\ ag' = [ag EXCEPT !.pc = "loop"]
  /\ UNCHANGED << ui, enabled, gh, boardVars >>

\* load_state gave a state: lines 597-610, up to the call of write_action.
\* serial numbers the calls of write_action and seen is the board and hand the
\* search ran on; they are history, not payload.
AgentSearch ==
  /\ ag.pc = "poll"
  /\ ~load_state(fs[STATE_PATH]).none
  /\ LET state == load_state(fs[STATE_PATH])
         best == choose_best_move(state, ag.weights)
         seen == [ag EXCEPT !.max_combo = Max2(@, state.combo),
                            !.max_score = Max2(@, state.score)]
     IN  IF best.none
         THEN /\ ag' = [seen EXCEPT !.pc = "loop"]
              /\ UNCHANGED gh
         ELSE /\ ag.move_id < MaxMoveId
              /\ ag' = [seen EXCEPT
                          !.pc = "wa_open",
                          !.move_id = NextMoveId(ag.move_id),
                          !.action = [move_id |-> NextMoveId(ag.move_id),
                                      slot |-> best.slot, gx |-> best.gx, gy |-> best.gy,
                                      serial |-> gh.serial + 1,
                                      seen |-> BoardAndHand(state)]]
              /\ gh' = [gh EXCEPT !.serial = @ + 1]
  /\ UNCHANGED << fs, ui, enabled, boardVars >>

\* write_action: open(tmp_path, "w")
WaOpen ==
  /\ ag.pc = "wa_open"
  /\ fs' = [fs EXCEPT ![tmp_path] = Partial]
  /\ ag' = [ag EXCEPT !.pc = "wa_dump"]
  /\ UNCHANGED << ui, enabled, gh, boardVars >>

\* write_action: json.dump(action) and close
WaDump ==
  /\ ag.pc = "wa_dump"
  /\ fs' = [fs EXCEPT ![tmp_path] = Whole(ag.action)]
  /\ ag' = [ag EXCEPT !.pc = "wa_exists", !.attempt = 0]
  /\ UNCHANGED << ui, enabled, gh, boardVars >>

\* write_action: os.path.exists(ACTION_PATH)
WaExists ==
  /\ ag.pc = "wa_exists"
  /\ ag' = [ag EXCEPT !.pc = IF fs[ACTION_PATH] # Absent THEN "wa_remove" ELSE "wa_rename"]
  /\ UNCHANGED << fs, ui, enabled, gh, boardVars >>

\* write_action: os.remove(ACTION_PATH).  FileNotFoundError is not caught and ends
\* main(); PermissionError (the game process holds the file open, by the
\* platform) is retried max_retries times, then tmp_path is removed and the
\* error ends main().
WaRemove ==
  /\ ag.pc = "wa_remove"
  /\ \/ /\ fs[ACTION_PATH] = Absent
        /\ ag' = AgentOff
        /\ enabled' = FALSE
        /\ UNCHANGED fs
     \/ /\ fs[ACTION_PATH] # Absent
        /\ fs' = [fs EXCEPT ![ACTION_PATH] = Absent]
        /\ ag' = [ag EXCEPT !.pc = "wa_rename"]
        /\ UNCHANGED enabled
     \/ /\ fs[ACTION_PATH] # Absent
        /\ ui.pc = "reading"
        /\ IF ag.attempt < max_retries - 1
           THEN /\ ag' = [ag EXCEPT !.pc = "wa_exists", !.attempt = @ + 1]
                /\ UNCHANGED << fs, enabled >>
           ELSE /\ ag' = AgentOff
                /\ enabled' = FALSE
                /\ fs' = [fs EXCEPT ![tmp_path] = Absent]
  /\ UNCHANGED << ui, gh, boardVars >>

\* write_action: os.rename(tmp_path, ACTION_PATH) and the return to the loop
WaRename ==
  /\ ag.pc = "wa_rename"
  /\ IF fs[tmp_path] = Absent
     THEN /\ ag' = AgentOff
          /\ enabled' = FALSE
          /\ UNCHANGED << fs, gh >>
     ELSE /\ fs' = [p \in Paths |-> IF p = ACTION_PATH THEN fs[tmp_path]
                                    ELSE IF p = tmp_path THEN Absent ELSE fs[p]]
          /\ ag' = [ag EXCEPT !.pc = "loop", !.action = NoAction, !.attempt = 0]
          /\ gh' = [gh EXCEPT !.pub_run = Max2(@, ag.action.move_id),
                              !.pub_game = Max2(@, ag.action.move_id),
                              !.off_pub = IF enabled THEN @ ELSE @ + 1]
          /\ UNCHANGED enabled
  /\ UNCHANGED << ui, boardVars >>

Init ==
  /\ InitSys
  /\ b_game = NewGameFields
  /\ b_op = "none"
  /\ b_arg = << >>
  /\ b_out = << >>

\* The steps of the game process.
NextUi ==
  \/ UiStart \/ UiWriteOpen \/ UiWriteDump \/ UiApply \/ UiHandle \/ UiCheckRestart

\* The steps of a running agent that touch the action file.
NextPublish ==
  \/ AgentSearch \/ WaOpen \/ WaDump \/ WaExists \/ WaRemove \/ WaRename

\* The game process and one run of the agent.
Next ==
  \/ NextUi
  \/ (gh.starts = 0 /\ AgentStart)
  \/ ConsoleOn \/ ConsoleOff
  \/ AgentLoop
  \/ (gh.n_final < MaxFinal /\ AgentFinalize)
  \/ AgentRestartOpen \/ AgentRestartDump
  \/ NextPublish

Spec == Init /\ [][Next]_vars

\* The game process and an agent that is quit and started again.
NextRestart ==
  \/ NextUi
  \/ (gh.starts < MaxStarts /\ AgentStart)
  \/ ConsoleOn \/ ConsoleQuit
  \/ AgentLoop
  \/ (gh.n_final < MaxRestartFinal /\ AgentFinalize)
  \/ AgentRestartOpen \/ AgentRestartDump
  \/ NextPublish

SpecRestart == Init /\ [][NextRestart]_vars

\* The steps of a running agent.
NextAgent ==
  \/ AgentLoop
  \/ (gh.n_final < MaxRestartFinal /\ AgentFinalize)
  \/ AgentRestartOpen \/ AgentRestartDump
  \/ NextPublish

\* The loop of run(), after its first snapshot.
RunLoop ==
  \/ UiWriteOpen \/ UiWriteDump \/ UiApply \/ UiHandle \/ UiCheckRestart

\* The agent was quit in the middle of a game, after the game process applied
\* its first action (move_id 1) and wrote the snapshot: the game process is in
\* its loop, the agent is not running.
InitLive ==
  /\ \E g \in Game_init :
        LET state == load_state(Whole(build_state_dict(g, FALSE)))
            best == choose_best_move(state, FALLBACK_WEIGHTS)
        IN  /\ ~best.none
            /\ \E r \in Game_place(g, best.slot, best.gx, best.gy) :
                  /\ r.ok
                  /\ Game_any_move_available(r.game)
                  /\ ui = [ pc |-> "apply", ret |-> "none", game |-> r.game,
                            game_over |-> FALSE, last_move_id |-> 1, action |-> Absent ]
                  /\ fs = [p \in Paths |->
                             IF p = STATE_PATH THEN Whole(build_state_dict(r.game, FALSE))
                             ELSE Absent]
  /\ ag = AgentOff
  /\ enabled = FALSE
  /\ gh = [ starts |-> 1, moves |-> 1, n_final |-> 0, fin_game |-> 0, batch |-> 0,
            trained |-> 0, last_batch |-> 0, pub_run |-> 1, pub_game |-> 1,
            serial |-> 1, applied |-> {1}, stale |-> FALSE, read |-> {1},
            off_pub |-> 0 ]
  /\ b_game = NewGameFields
  /\ b_op = "none"
  /\ b_arg = << >>
  /\ b_out = << >>

\* The game process and the agent started again and switched on; both processes
\* keep taking their steps.
NextLive ==
  \/ RunLoop
  \/ (gh.starts < MaxStarts /\ AgentStart)
  \/ ConsoleOn
  \/ NextAgent

\* The steps of a running agent other than the search.
AgentRest ==
  \/ AgentLoop
  \/ (gh.n_final < MaxRestartFinal /\ AgentFinalize)
  \/ AgentRestartOpen \/ AgentRestartDump
  \/ WaOpen \/ WaDump \/ WaExists \/ WaRemove \/ WaRename

\* AgentSearch can be taken: its guard.  A step of it always leaves "poll".
SearchEnabled ==
  /\ ag.pc = "poll"
  /\ ~load_state(fs[STATE_PATH]).none
  /\ \/ choose_best_move(load_state(fs[STATE_PATH]), ag.weights).none
     \/ ag.move_id < MaxMoveId

\* Both processes are scheduled: each keeps taking the step it is at.  The
\* operator starts the agent again and switches it on.  The last conjunct is
\* WF_vars(AgentSearch) with ENABLED written out as the guard of the step.
SpecLive ==
  /\ InitLive
  /\ [][NextLive]_vars
  /\ WF_vars(RunLoop)
  /\ WF_vars(AgentRest)
  /\ WF_vars(ConsoleOn)
  /\ WF_vars(gh.starts < MaxStarts /\ AgentStart)
  /\ []<>(~SearchEnabled)

\* The agent alone: the game process is not running.
NextBatch ==
  \/ (gh.starts < MaxStarts /\ AgentStart)
  \/ ConsoleOn \/ ConsoleOff \/ ConsoleQuit
  \/ AgentLoop
  \/ (gh.n_final < MaxBatchFinal /\ AgentFinalize)
  \/ AgentRestartOpen \/ AgentRestartDump

SpecBatch == Init /\ [][NextBatch]_vars

--------------------------------------------------------------------------
\* The board functions applied to bounded inputs

\* Greatest combo value of an input.
MaxCombo == 2

AllGrids == [Idx -> [Idx -> {0, 1}]]

NoFullLine(grid) == \A i \in Idx : ~RowFull(grid, i) /\ ~ColFull(grid, i)

HandOf(a, b, c) == (0 :> a) @@ (1 :> b) @@ (2 :> c)

\* The hands of the inputs.
BoardHands ==
  { HandOf(P(0), None, None),
    HandOf(P(7), P(0), P(15)),
    HandOf(None, P(14), P(1)),
    HandOf(P(8), None, P(4)),
    HandOf(None, None, P(2)) }

\* The weight vectors of the inputs.
BoardWeights == { FALLBACK_WEIGHTS, BoundsLo, BoundsHi }

\* The GameState the agent parses from the snapshot of b_game.
BoardState == ParseState(build_state_dict(b_game, FALSE))

InitBoard ==
  /\ b_game \in { [NewGameFields EXCEPT !.grid = g, !.hand = h, !.combo = c] :
                  g \in AllGrids, h \in BoardHands, c \in 0 .. MaxCombo }
  /\ b_op = "init"
  /\ b_arg = << >>
  /\ b_out = << >>
  /\ InitSys

\* clear_lines(grid) of ai.py and Game.clear_lines() on the same grid
DoClearLines ==
  /\ b_op = "init"
  /\ b_op' = "clear_lines"
  /\ b_arg' = << >>
  /\ b_out' = [ai |-> clear_lines(b_game.grid), game |-> Game_clear_lines(b_game)]
  /\ UNCHANGED << b_game, sysVars >>

\* choose_best_move(state, weights) on a board the engine can hold
DoChooseBestMove ==
  /\ b_op = "init"
  /\ NoFullLine(b_game.grid)
  /\ \E w \in BoardWeights :
        /\ b_arg' = [weights |-> w]
        /\ b_out' = choose_best_move(BoardState, w)
  /\ b_op' = "choose_best_move"
  /\ UNCHANGED << b_game, sysVars >>

\* simulate_move(state, piece, gx, gy) and Game.place(slot, gx, gy) on the same
\* board, piece and combo
DoMove ==
  /\ b_op = "init"
  /\ NoFullLine(b_game.grid)
  /\ \E slot \in 0 .. 2, gx \in Idx, gy \in Idx :
        /\ b_game.hand[slot] # None
        /\ b_arg' = [slot |-> slot, gx |-> gx, gy |-> gy]
        /\ \E r \in Game_place(b_game, slot, gx, gy) :
              b_out' = [sim |-> simulate_move(BoardState, BoardState.hand[slot], gx, gy),
                        placed |-> r]
  /\ b_op' = "move"
  /\ UNCHANGED << b_game, sysVars >>

\* The slots and the coordinates of the actions handed to the game: the legal
\* ones and one below and one above them.
ProbeSlots == (0 - 1) .. 3

ProbeCoords == (0 - 1) .. Size

\* Game.place(slot, gx, gy) and apply_ai_action_if_any on an action with any slot
\* and coordinates, on the same game
DoAction ==
  /\ b_op = "init"
  /\ NoFullLine(b_game.grid)
  /\ \E slot \in ProbeSlots, gx \in ProbeCoords, gy \in ProbeCoords :
        /\ b_arg' = [move_id |-> 1, slot |-> slot, gx |-> gx, gy |-> gy]
        /\ \E r \in Game_place(b_game, slot, gx, gy),
              h \in apply_ai_action(b_game, 0, b_arg') :
              b_out' = [placed |-> r, handled |-> h]
  /\ b_op' = "action"
  /\ UNCHANGED << b_game, sysVars >>

\* The weights files load_weights is applied to: none, a cut-off one, whole
\* vectors, a vector with one key more, with one key less, with a value that is
\* not a number, and an empty object.
WeightFiles ==
  << Absent, Partial, Whole(EmptyDict),
     Whole(FALLBACK_WEIGHTS), Whole(BoundsLo), Whole(BoundsHi),
     Whole([k \in WeightKeys \cup { "extra" } |-> IF k = "extra" THEN 7 ELSE BoundsHi[k]]),
     Whole([k \in WeightKeys \ { "holes" } |-> BoundsLo[k]]),
     Whole([k \in WeightKeys \ { "immediate_gain" } |-> BoundsHi[k]]),
     [kind |-> "json", data |-> BoundsLo, nan |-> { "holes" }],
     [kind |-> "json", data |-> BoundsHi, nan |-> { "diversity", "filled" }] >>

\* load_weights(path, FALLBACK_WEIGHTS)
DoLoadWeights ==
  /\ b_op = "init"
  /\ \E i \in 1 .. Len(WeightFiles) :
        /\ b_arg' = [file |-> WeightFiles[i]]
        /\ b_out' = load_weights(WeightFiles[i], FALLBACK_WEIGHTS)
  /\ b_op' = "load_weights"
  /\ UNCHANGED << b_game, sysVars >>

\* The line counts calculate_score_gain is applied to.
ProbeCleared == (0 - 1) .. (2 * Size)

\* calculate_score_gain(cleared, combo)
DoScoreGain ==
  /\ b_op = "init"
  /\ \E cleared \in ProbeCleared :
        /\ b_arg' = [cleared |-> cleared, combo |-> b_game.combo]
        /\ b_out' = calculate_score_gain(cleared, b_game.combo)
  /\ b_op' = "score_gain"
  /\ UNCHANGED << b_game, sysVars >>

\* Game._simulate_on(grid, piece, gx, gy) and Game.place(slot, gx, gy) on the same
\* grid and legal placement
DoSimulateOn ==
  /\ b_op = "init"
  /\ NoFullLine(b_game.grid)
  /\ \E slot \in 0 .. 2, gx \in Idx, gy \in Idx :
        /\ b_game.hand[slot] # None
        /\ Game_can_place(b_game, b_game.hand[slot], gx, gy)
        /\ b_arg' = [slot |-> slot, gx |-> gx, gy |-> gy]
        /\ \E r \in Game_place(b_game, slot, gx, gy) :
              b_out' = [sim |-> Game_simulate_on(b_game.grid, b_game.hand[slot], gx, gy),
                        real |-> r.game.grid]
  /\ b_op' = "simulate_on"
  /\ UNCHANGED << b_game, sysVars >>

\* deal_hand_full() from the whole catalog on a board the engine can hold when
\* it deals (no full line, the hand used up); the deal reads the grid only.
DoDeal ==
  /\ b_op = "init"
  /\ NoFullLine(b_game.grid)
  /\ b_game.combo = 0
  /\ b_game.hand = HandOf(P(0), None, None)
  /\ b_arg' = << >>
  /\ \E h \in deal_hand_full_of(Catalog, b_game) : b_out' = [hand |-> h]
  /\ b_op' = "deal"
  /\ UNCHANGED << b_game, sysVars >>

NextBoard ==
  \/ DoClearLines \/ DoChooseBestMove \/ DoMove \/ DoAction
  \/ DoLoadWeights \/ DoScoreGain \/ DoSimulateOn \/ DoDeal

SpecBoard == InitBoard /\ [][NextBoard]_vars

--------------------------------------------------------------------------
\* Claims about the board functions (checked under SpecBoard)

\* The legal placements <<slot, gx, gy>> of a GameState.
LegalSet(state) ==
  { m \in (0 .. 2) \X Idx \X Idx :
      state.hand[m[1]] # None /\ can_place(state.grid, state.hand[m[1]], m[2], m[3]) }

\* evaluate_move of placement m
MoveValue(state, weights, m) ==
  evaluate_move(simulate_move(state, state.hand[m[1]], m[2], m[3]), state, weights)

\* m1 comes before m2 in the enumeration: slot, then y, then x ascending
Before(m1, m2) ==
  \/ m1[1] < m2[1]
  \/ m1[1] = m2[1] /\ m1[3] < m2[3]
  \/ m1[1] = m2[1] /\ m1[3] = m2[3] /\ m1[2] < m2[2]

\* What clearing must give on grid g: the cells of the rows and columns full in g
\* are empty, every other cell is as in g, and the count is rows + columns.
ClearedAsSpecified(g, res_grid, res_cleared) ==
  /\ \A r \in Idx : \A c \in Idx :
        res_grid[r][c] = IF RowFull(g, r) \/ ColFull(g, c) THEN 0 ELSE g[r][c]
  /\ res_cleared = Cardinality({ r \in Idx : RowFull(g, r) })
                     + Cardinality({ c \in Idx : ColFull(g, c) })

\* C1: clear_lines (ai.py and Game) finds the full rows and columns on the grid as
\* it is before any clearing, empties exactly their cells and returns their number;
\* a crossing cell is cleared once and both of its lines are counted.
C1_ClearLines ==
  b_op = "clear_lines" =>
     /\ ClearedAsSpecified(b_game.grid, b_out.ai.grid, b_out.ai.cleared)
     /\ ClearedAsSpecified(b_game.grid, b_out.game.game.grid, b_out.game.cleared)

\* A full row crossing a full column, with a filled cell outside both.
C1_Witness ==
  /\ b_op = "clear_lines"
  /\ RowFull(b_game.grid, 0) /\ ColFull(b_game.grid, 0)
  /\ b_game.grid[1][1] = 1 /\ b_game.grid[2][2] = 0
  /\ b_out.ai.cleared = 2
  /\ b_out.ai.grid[1][1] = 1

\* C2: the move choose_best_move returns is legal, no legal move has a greater
\* value, and every legal move before it in the enumeration has a smaller value.
C2_BestFirst ==
  (b_op = "choose_best_move" /\ b_out # NoMove) =>
     LET r == << b_out.slot, b_out.gx, b_out.gy >>
         w == b_arg.weights
     IN  /\ r \in LegalSet(BoardState)
         /\ \A m \in LegalSet(BoardState) :
               /\ ~ValueGt(MoveValue(BoardState, w, m), MoveValue(BoardState, w, r))
               /\ Before(m, r) => ValueGt(MoveValue(BoardState, w, r),
                                          MoveValue(BoardState, w, m))

\* The empty grid, a hand of one 1-cell piece, the fallback weights: the move
\* returned ties with a later one.
C2_Witness ==
  /\ b_op = "choose_best_move"
  /\ b_game.grid = EmptyGrid
  /\ b_game.hand = HandOf(P(0), None, None)
  /\ b_arg.weights = FALLBACK_WEIGHTS
  /\ b_out # NoMove
  /\ \E m \in LegalSet(BoardState) :
        /\ Before(<< b_out.slot, b_out.gx, b_out.gy >>, m)
        /\ ~ValueGt(MoveValue(BoardState, b_arg.weights, << b_out.slot, b_out.gx, b_out.gy >>),
                    MoveValue(BoardState, b_arg.weights, m))

\* C3: choose_best_move returns "no move" exactly when no hand piece can be placed
\* anywhere; a move it returns names a non-empty slot and a placement can_place allows.
C3_NoMoveIffNoneLegal ==
  b_op = "choose_best_move" =>
     /\ (b_out = NoMove) <=> (LegalSet(BoardState) = {})
     /\ b_out # NoMove =>
           /\ BoardState.hand[b_out.slot] # None
           /\ can_place(BoardState.grid, BoardState.hand[b_out.slot], b_out.gx, b_out.gy)

\* "No move" with a piece in hand that fits nowhere.
C3_Witness ==
  /\ b_op = "choose_best_move"
  /\ b_out = NoMove
  /\ \E i \in 0 .. 2 : b_game.hand[i] # None
  /\ \E c \in Idx \X Idx : b_game.grid[c[1]][c[2]] = 0

\* C4: for a legal placement simulate_move gives the grid, the cleared-line count
\* and the score delta that Game.place gives on the same board, piece and combo.
C4_SimulationMatchesEngine ==
  (b_op = "move" /\ b_out.placed.ok) =>
     /\ ~b_out.sim.none
     /\ b_out.sim.grid = b_out.placed.game.grid
     /\ b_out.sim.cleared_lines = b_out.placed.game.last_lines_cleared
     /\ b_out.sim.score_gain = b_out.placed.game.last_action_score


--------------------------------------------------------------------------
\* The trainer applied to the statistics of successive game batches

\* The statistics of a batch: no move made in any game, short games, long games.
StatsZero == (1 :> [Moves |-> 0, Score |-> 0, Max_Combo |-> 0])

StatsLow ==
  (1 :> [Moves |-> 2, Score |-> 13, Max_Combo |-> 0])
    @@ (2 :> [Moves |-> 1, Score |-> 9, Max_Combo |-> 0])

StatsHigh ==
  (1 :> [Moves |-> 6, Score |-> 340, Max_Combo |-> 2])
    @@ (2 :> [Moves |-> 4, Score |-> 52, Max_Combo |-> 1])

TrainStats == { StatsZero, StatsLow, StatsHigh }

MaxTrain == 19   \* runs of the trainer
MaxHigh == 2     \* runs on the statistics of long games
MaxZero == 1     \* runs on the statistics of games without a move

\* The draws the runs are explored with.
TrainDraws ==
  { Draw(BoundsLo, BoundsLo, BoundsHi, 0, (POPULATION_SIZE \div 2) - 1, fhs[1], fhs[2], fhs[3]) :
    fhs \in { << TRUE, TRUE, 0 - 1 >>, << FALSE, TRUE, 1 >>, << TRUE, FALSE, 1 >> } }

InitTrain ==
  /\ InitSys
  /\ b_game = NewGameFields
  /\ b_op = "init"
  /\ b_arg = << >>
  /\ b_out = [steps |-> 0, highs |-> 0, zeros |-> 0, top |-> Zero, since |-> 0]

\* The history after a run of the trainer on the files with the draws rnd; since
\* counts the runs on a batch since the last one that completed a generation.
Ran(files, rnd) ==
  LET file == files[GENERIC_PATH]
  IN
  [ since |-> IF Falsy(file) THEN b_out.since
              ELSE IF all_evaluated(Evaluated(files, rnd)) THEN 0
              ELSE b_out.since + 1,
    steps |-> b_out.steps + 1,
    highs |-> b_out.highs + (IF file = Whole(StatsHigh) THEN 1 ELSE 0),
    zeros |-> b_out.zeros + (IF file = Whole(StatsZero) THEN 1 ELSE 0),
    top |-> IF Falsy(file) THEN b_out.top
            ELSE IF FitGt(calc_fitness(file.data), b_out.top) THEN calc_fitness(file.data)
            ELSE b_out.top ]

InBounds(file) ==
  /\ b_out.steps < MaxTrain
  /\ file = Whole(StatsHigh) => b_out.highs < MaxHigh
  /\ file = Whole(StatsZero) => b_out.zeros < MaxZero

\* The end of a batch in main(): the statistics are written, then train() runs.
DoBatch ==
  /\ \E stats \in TrainStats, rnd \in TrainDraws :
        /\ InBounds(Whole(stats))
        /\ fs' = train([fs EXCEPT ![GENERIC_PATH] = Whole(stats)], rnd)
        /\ b_out' = Ran([fs EXCEPT ![GENERIC_PATH] = Whole(stats)], rnd)
  /\ b_op' = "train"
  /\ UNCHANGED << b_game, b_arg, ui, ag, enabled, gh >>

\* The trainer run as a program: train() on the files as they are.
DoTrainerMain ==
  /\ InBounds(fs[GENERIC_PATH])
  /\ \E rnd \in TrainDraws : fs' = train(fs, rnd) /\ b_out' = Ran(fs, rnd)
  /\ b_op' = "train"
  /\ UNCHANGED << b_game, b_arg, ui, ag, enabled, gh >>

NextTrain == DoBatch \/ DoTrainerMain

SpecTrain == InitTrain /\ [][NextTrain]_vars

--------------------------------------------------------------------------
\* Claims about the protocol between the agent and the game process

\* The step in which write_action renames the temporary file onto action.json.
PublishStep == ag.pc = "wa_rename" /\ ag'.pc = "loop"

\* The step in which the agent finalizes a game.
FinalizeStep == gh'.n_final # gh.n_final

\* The step in which the game process handles an action it has read.
HandleStep == ui.pc = "reading" /\ ui'.pc # "reading" /\ ui.action.kind = "json"

Terminal(data) == data.status.game_over \/ ~data.status.any_move_available

\* C5, as stated: every action the agent publishes carries an id greater than the
\* id of every action it published before in this run of the process.
C5_IdsIncreaseOverRun ==
  [][PublishStep => ag.action.move_id > gh.pub_run]_vars

\* C5, amended: every action the agent publishes carries an id greater than the id
\* of every action it published since the move counter was last reset, that is
\* since the start of the process or the last finalization of a game.
C5_IdsIncreaseWithinGame ==
  [][PublishStep => ag.action.move_id > gh.pub_game]_vars

\* After a finalization the agent has published id 1 and then id 2.
C5_Witness ==
  /\ gh.n_final >= 1
  /\ gh.pub_game = 2
  /\ gh.pub_run = 2

\* C6: the game process applies an action only if its move_id is greater than the
\* last one it handled; an action with the same or a lower id leaves the game and
\* the last handled id as they are; a greater id becomes the last handled id;
\* and no publication is applied twice.
C6_AppliesOnlyNewer ==
  [][HandleStep =>
       LET a == ui.action.data
       IN  /\ ui'.game # ui.game => a.move_id > ui.last_move_id
           /\ a.move_id <= ui.last_move_id =>
                 ui'.game = ui.game /\ ui'.last_move_id = ui.last_move_id
           /\ a.move_id > ui.last_move_id => ui'.last_move_id = a.move_id
           /\ ui'.game # ui.game => a.serial \notin gh.applied]_vars

\* The agent was started again, and in a game with a move applied the game
\* process has an action in hand whose id is not above the last one handled.
C6_Witness ==
  /\ gh.starts = 2
  /\ gh.moves >= 1
  /\ ui.pc = "reading"
  /\ ui.action.kind = "json"
  /\ ui.action.data.move_id <= ui.last_move_id

\* C7: the agent finalizes a game only when the snapshot file is absent or holds
\* a whole snapshot that is terminal; it never takes a snapshot that is being
\* written for the end of a game.
C7_FinalizesOnlyEndedGames ==
  [][FinalizeStep =>
       \/ fs[STATE_PATH] = Absent
       \/ fs[STATE_PATH].kind = "json" /\ Terminal(fs[STATE_PATH].data)]_vars

\* C8: a game that has ended is finalized once: the agent has run NoState at most
\* once since the game process created the game.
C8_FinalizedOnce ==
  (ui.pc # "start" /\ ui.game_over) => gh.fin_game <= 1

\* C9: every run of the trainer comes after exactly 10 finalized games, counted
\* from the start of the agent or from the previous run of the trainer.
C9_TrainerEveryTenGames ==
  gh.trained > 0 => gh.last_batch = 10

\* An action record as write_action builds it.
IsActionRecord(d) ==
  /\ d.move_id >= 1
  /\ d.slot \in 0 .. 2
  /\ d.gx \in Idx /\ d.gy \in Idx
  /\ d.serial \in 1 .. gh.serial

\* C10: action.json is absent or holds one whole action record of one call of
\* write_action, and what the game process opened was such a record.
C10_ActionFileWhole ==
  /\ fs[ACTION_PATH].kind # "partial"
  /\ fs[ACTION_PATH].kind = "json" => IsActionRecord(fs[ACTION_PATH].data)
  /\ ui.pc = "reading" => ui.action.kind = "json" /\ IsActionRecord(ui.action.data)

\* The game process has opened a published action while the agent, quit and
\* started again in the middle of a write, is writing the temporary file.
C10_Witness ==
  /\ ui.pc = "reading"
  /\ ui.action.kind = "json"
  /\ fs[tmp_path] = Partial
  /\ ag.pc = "wa_dump"
  /\ gh.starts = 2

\* A step in which write_action fails: main() ends inside the replace loop.
WriteActionFails ==
  ag.pc \in { "wa_exists", "wa_remove", "wa_rename" } /\ ag'.pc = "off"

\* C11: write_action tries the replace at most 5 times; when it returns,
\* action.json holds the new action; when it fails, it leaves no temporary file
\* and no partial action.json behind, also when the game process deletes
\* action.json while write_action runs.
C11_WriteActionCleansUp ==
  [][/\ ag'.attempt < max_retries
     /\ PublishStep => fs'[ACTION_PATH] = Whole(ag.action)
     /\ WriteActionFails =>
          fs'[tmp_path] = Absent /\ fs'[ACTION_PATH].kind # "partial"]_vars

\* The step in which write_action gives up: os.remove has failed on the last of
\* its attempts.
GiveUpStep ==
  /\ ag.pc = "wa_remove"
  /\ ag.attempt = max_retries - 1
  /\ fs[ACTION_PATH] # Absent
  /\ fs'[ACTION_PATH] # Absent
  /\ ag' # ag

\* C12: when write_action gives up after its retries the agent keeps running:
\* main() is back at the head of its loop, ready to poll and publish again.
C12_FailedWriteKeepsLoop ==
  [][GiveUpStep => ag'.pc = "loop"]_vars

\* The step in which the game process opens and reads the action file.
ReadStep == ui.pc = "apply" /\ ui'.pc = "reading" /\ fs[ACTION_PATH].kind = "json"

--------------------------------------------------------------------------
\* Claims about the actions the game process rejects

\* The action b_arg is one the game can apply to b_game: slot and coordinates are
\* on the board, the slot holds a piece, and every cell of the piece falls on a
\* free cell of the board.
ActionApplies ==
  /\ b_arg.slot \in 0 .. 2
  /\ b_arg.gx \in Idx /\ b_arg.gy \in Idx
  /\ b_game.hand[b_arg.slot] # None
  /\ \A c \in b_game.hand[b_arg.slot].cells :
        /\ b_arg.gx + c[1] \in Idx
        /\ b_arg.gy + c[2] \in Idx
        /\ b_game.grid[b_arg.gy + c[2]][b_arg.gx + c[1]] = 0

\* C14: an action whose slot or coordinates are out of range, whose slot is empty
\* or whose placement is not legal is rejected by the game process with the game
\* (grid, hand, score, combo) as it was and no snapshot written, and Game.place
\* returns False on it and leaves the game as it was.
C14_InvalidActionRejected ==
  (b_op = "action" /\ ~ActionApplies) =>
     /\ ~b_out.handled.ok
     /\ b_out.handled.game = b_game
     /\ ~b_out.placed.ok
     /\ b_out.placed.game = b_game

\* An action in range, on a slot that holds a piece, whose placement falls on an
\* occupied cell, has been handed to the game.
C14_Witness ==
  /\ b_op = "action"
  /\ ~ActionApplies
  /\ b_arg.slot \in 0 .. 2
  /\ b_arg.gx \in Idx /\ b_arg.gy \in Idx
  /\ b_game.hand[b_arg.slot] # None
  /\ Game_can_place_bounds(b_game, b_game.hand[b_arg.slot], b_arg.gx, b_arg.gy)
  /\ b_out.handled.kind = "rejected"

--------------------------------------------------------------------------
\* Claims about the trainer

POPULATION_FILE == "population.json"
CURRENT_INDEX_FILE == "current_index.json"
BEST_FILE == "best_weights.json"

\* A step that is a run of the trainer, and one that finds statistics.
TrainStep == b_out'.steps # b_out.steps

Trained == TrainStep /\ ~Falsy(fs'[GENERIC_PATH])

\* The population the run found, with the fitness of the batch assigned to the
\* member at the cursor.
Assigned ==
  [fs[POPULATION_FILE].data EXCEPT
     ![fs[CURRENT_INDEX_FILE].data.value].f = calc_fitness(fs'[GENERIC_PATH].data)]

\* The run completes the generation: it found a population and every member
\* has a fitness above 0 once the batch is assigned.
Completes ==
  /\ Trained
  /\ fs[POPULATION_FILE].kind = "json"
  /\ \A i \in 0 .. 9 : Assigned[i].f.num > 0

\* The best fitness on record in the files f, 0 when there is no record.
Best(f) == IF f[BEST_FILE].kind = "json" THEN f[BEST_FILE].data.f ELSE Zero

\* The state right after a generation was completed: two evaluated members
\* first, the others unevaluated, the cursor at 0.
AfterTurnover ==
  /\ b_op = "train"
  /\ fs[POPULATION_FILE].kind = "json"
  /\ fs[CURRENT_INDEX_FILE].data.value = 0
  /\ fs[POPULATION_FILE].data[1].f.num > 0
  /\ \A i \in 2 .. 9 : fs[POPULATION_FILE].data[i].f.num = 0

\* C15: when a run completes the generation and no member's fitness exceeds the
\* best on record, the record stays as it is, members 0 and 1 of the new
\* population are the two members of highest fitness with their weights and
\* fitness, every other member has fitness 0, and the cursor is 0.
C15_TurnoverKeepsElites ==
  [][(Completes /\ \A i \in 0 .. 9 : ~FitGt(Assigned[i].f, Best(fs))) =>
       LET new == fs'[POPULATION_FILE].data
       IN  /\ fs'[BEST_FILE] = fs[BEST_FILE]
           /\ \E i, j \in 0 .. 9 :
                 /\ i # j
                 /\ new[0] = Assigned[i] /\ new[1] = Assigned[j]
                 /\ ~FitGt(Assigned[j].f, Assigned[i].f)
                 /\ \A k \in 0 .. 9 \ { i, j } : ~FitGt(Assigned[k].f, Assigned[j].f)
           /\ \A m \in 2 .. 9 : new[m].f = Zero
           /\ fs'[CURRENT_INDEX_FILE].data.value = 0]_vars

\* A second generation was completed without a new record: the best on record
\* is above the fitness of every member carried over.
C15_Witness ==
  /\ AfterTurnover
  /\ b_out.steps >= 19
  /\ FitGt(Best(fs), fs[POPULATION_FILE].data[0].f)

\* C16: when a run completes a generation, the best fitness on record is at
\* least every fitness a run has assigned to a member so far.
C16_BestIsHighestEver ==
  [][Completes => ~FitGt(b_out'.top, Best(fs'))]_vars

\* C17: every run of the trainer leaves a population, a cursor and a weights
\* file, and the weights file holds the weights of the member at the cursor.
C17_RunPersistsActiveWeights ==
  [][TrainStep =>
       /\ fs'[POPULATION_FILE].kind = "json"
       /\ fs'[CURRENT_INDEX_FILE].kind = "json"
       /\ fs'[WEIGHTS_PATH].kind = "json"
       /\ fs'[WEIGHTS_PATH].data =
            fs'[POPULATION_FILE].data[fs'[CURRENT_INDEX_FILE].data.value].w]_vars

\* The cursor after c in population p: the least index above c whose member has
\* fitness 0, and 0 when there is none.
NextFree(p, c) ==
  IF \E j \in 0 .. 9 : j > c /\ p[j].f.num = 0
  THEN CHOOSE j \in 0 .. 9 :
         /\ j > c /\ p[j].f.num = 0
         /\ \A m \in 0 .. 9 : (m > c /\ p[m].f.num = 0) => j <= m
  ELSE 0

\* C18: a run that does not complete the generation moves the cursor to the
\* least index above it whose member is unevaluated, or to 0 when there is none,
\* and changes nothing in the population but the fitness it assigns.
C18_CursorToNextUnevaluated ==
  [][(Trained /\ ~Completes) =>
       LET new == fs'[POPULATION_FILE].data
           cursor == fs'[CURRENT_INDEX_FILE].data.value
       IN  IF fs[POPULATION_FILE].kind = "json"
           THEN /\ new = Assigned
                /\ cursor = NextFree(Assigned, fs[CURRENT_INDEX_FILE].data.value)
           ELSE /\ new[0].f = calc_fitness(fs'[GENERIC_PATH].data)
                /\ \A i \in 1 .. 9 : new[i].f = Zero
                /\ cursor = NextFree(new, 0)]_vars

\* The cursor is back at 0 because no member after the last one is unevaluated,
\* while the generation is not complete.
C18_Witness ==
  /\ b_op = "train"
  /\ fs[POPULATION_FILE].kind = "json"
  /\ fs[CURRENT_INDEX_FILE].data.value = 0
  /\ fs[POPULATION_FILE].data[9].f.num = 0
  /\ \A i \in 0 .. 8 : fs[POPULATION_FILE].data[i].f.num > 0

\* C19: the population has exactly 10 members and the cursor is an index of it.
C19_PopulationSizeAndCursor ==
  fs[POPULATION_FILE].kind = "json" =>
     /\ DOMAIN fs[POPULATION_FILE].data = 0 .. 9
     /\ fs[CURRENT_INDEX_FILE].kind = "json"
     /\ fs[CURRENT_INDEX_FILE].data.value \in 0 .. 9

\* A generation was completed and the next one has filled the population again.
C19_Witness ==
  /\ AfterTurnover
  /\ b_out.steps = 10

\* C20: every weight of every member of the population, and of the weights
\* file, lies between the least and the greatest value of its key.
C20_WeightsWithinBounds ==
  /\ fs[POPULATION_FILE].kind = "json" =>
        \A i \in DOMAIN fs[POPULATION_FILE].data : \A k \in WeightKeys :
           /\ BoundsLo[k] <= fs[POPULATION_FILE].data[i].w[k]
           /\ fs[POPULATION_FILE].data[i].w[k] <= BoundsHi[k]
  /\ fs[WEIGHTS_PATH].kind = "json" =>
        \A k \in WeightKeys :
           /\ BoundsLo[k] <= fs[WEIGHTS_PATH].data[k]
           /\ fs[WEIGHTS_PATH].data[k] <= BoundsHi[k]

\* After a generation was completed, one child holds a weight a mutation moved
\* off its least value and another holds a weight at the least value.
C20_Witness ==
  /\ AfterTurnover
  /\ \E i \in 2 .. 9 : \E k \in WeightKeys :
        /\ BoundsLo[k] < fs[POPULATION_FILE].data[i].w[k]
        /\ fs[POPULATION_FILE].data[i].w[k] < BoundsHi[k]

--------------------------------------------------------------------------
\* Claims about the weights file and the score of a move

\* C21: load_weights gives the vector of the file as it is when the file is a
\* whole object with all 14 keys and numbers for values, and the built-in
\* vector when the file is absent, cut off, lacks a key or holds a value that is
\* not a number; either way the result has all 14 keys.
C21_LoadWeightsComplete ==
  b_op = "load_weights" =>
     LET file == b_arg.file
         good == /\ file.kind = "json"
                 /\ WeightKeys \subseteq DOMAIN file.data
                 /\ "nan" \in DOMAIN file => file.nan = {}
     IN  /\ good => b_out = file.data
         /\ ~good => b_out = FALLBACK_WEIGHTS
         /\ WeightKeys \subseteq DOMAIN b_out

\* load_weights has met a file that lacks exactly one key.
C21_Witness ==
  /\ b_op = "load_weights"
  /\ b_arg.file.kind = "json"
  /\ Cardinality(WeightKeys \ DOMAIN b_arg.file.data) = 1
  /\ b_out = FALLBACK_WEIGHTS

\* The score for cleared lines as the spec gives it.
GainOf(cleared, combo) ==
  IF cleared <= 0 THEN 0
  ELSE IF cleared > 2 THEN 10 * cleared * (combo + 1) * (cleared - 1)
  ELSE 10 * cleared * (combo + 1)

\* C22: calculate_score_gain(cleared, combo) is 0 for cleared <= 0, else
\* 10 * cleared * (combo + 1), times (cleared - 1) when cleared > 2, so 10 for
\* (1, 0) and 120 for (3, 1); the gain of a simulated move is the number of cells
\* of the piece plus that score for the combo of the snapshot before the move.
C22_ScoreGain ==
  /\ calculate_score_gain(1, 0) = 10
  /\ calculate_score_gain(3, 1) = 120
  /\ b_op = "score_gain" => b_out = GainOf(b_arg.cleared, b_arg.combo)
  /\ (b_op = "move" /\ ~b_out.sim.none) =>
        b_out.sim.score_gain =
           Cardinality(b_game.hand[b_arg.slot].cells)
             + GainOf(b_out.sim.cleared_lines, BoardState.combo)

\* A simulated move has cleared more than 2 lines on a snapshot with a combo.
C22_Witness ==
  /\ b_op = "move"
  /\ ~b_out.sim.none
  /\ b_out.sim.cleared_lines > 2
  /\ BoardState.combo > 0

--------------------------------------------------------------------------
\* Claims about the toggle

\* The step in which main() passes the toggle and starts a cycle.
CycleStart == ag.pc = "loop" /\ ag'.pc = "poll"

\* C23: with the flag off the agent starts no cycle, so since the flag was
\* switched off it has completed at most the one cycle that was in progress: at
\* most one action, or one stats record with its restart request, was published.
C23_OffStopsAtPollBoundary ==
  /\ [](~enabled => gh.off_pub <= 1)
  /\ [][~enabled => ~CycleStart]_vars

\* The flag is off and the cycle that was in progress has published.
C23_Witness ==
  /\ ~enabled
  /\ ag.pc = "loop"
  /\ gh.off_pub = 1
  /\ fs[ACTION_PATH].kind = "json"

--------------------------------------------------------------------------
\* Claims about the move search under the default weights

\* Row r and column c of the grid are filled except for the cell where they cross.
CrossAt(grid, r, c) ==
  /\ grid[r][c] = 0
  /\ \A x \in Idx \ {c} : grid[r][x] = 1
  /\ \A y \in Idx \ {r} : grid[y][c] = 1

\* The hand slots that hold the piece of one cell.
SingleSlots(hand) == { s \in 0 .. 2 : hand[s] # None /\ hand[s].cells = {<<0, 0>>} }

ClearedBy(state, move) ==
  simulate_move(state, state.hand[move.slot], move.gx, move.gy).cleared_lines

\* Another placement of the hand than slot s on (c, r) clears two lines or more.
OtherDoubleClear(state, s, c, r) ==
  LET moves == find_all_legal_moves(state)
  IN  \E i \in 1 .. Len(moves) :
         /\ << moves[i].piece.slot, moves[i].gx, moves[i].gy >> # << s, c, r >>
         /\ simulate_move(state, moves[i].piece, moves[i].gx, moves[i].gy).cleared_lines >= 2

--------------------------------------------------------------------------
\* Claims about the weights a batch is played with

\* The step of main() that runs the trainer on a finished batch.
BatchTrained == gh'.trained # gh.trained

\* The weights of the member the trainer step assigns the fitness to: the member
\* at the cursor of the population file, or member 0 of the population the step
\* creates (which keeps its place, the other members being unevaluated).
AssignedWeights ==
  IF Falsy(fs[POPULATION_FILE]) THEN fs'[POPULATION_FILE].data[0].w
  ELSE fs[POPULATION_FILE].data[LoadedIndex(fs)].w

\* C25: the fitness of a batch goes to the member whose weights the agent
\* played the batch with.
C25_FitnessOfPlayedWeights == [][BatchTrained => AssignedWeights = ag.weights]_vars

--------------------------------------------------------------------------
\* Claims about the snapshot an action was computed from

\* The game process places the piece of the action it has read.
PlaceStep == HandleStep /\ gh'.moves # gh.moves

\* C26: an action the game process applies was computed from the board and hand
\* the game holds when it is applied.
C26_AppliedOnItsSnapshot ==
  [][PlaceStep => ui.action.data.seen = BoardAndHand(ui.game)]_vars

--------------------------------------------------------------------------
\* Claims about the member a trainer step evaluates

\* C27: the member at the cursor of the population a trainer step finds has
\* fitness 0: the step overwrites no fitness above 0.
C27_CursorMemberUnevaluated ==
  [][(Trained /\ ~Falsy(fs[POPULATION_FILE])) =>
       fs[POPULATION_FILE].data[LoadedIndex(fs)].f = Zero]_vars

--------------------------------------------------------------------------
\* Claims about the statistics of a game

\* The agent finalizes, for the first time and on the whole last snapshot, the
\* game that the game process holds and that is over.
FinalizeEnded ==
  /\ FinalizeStep
  /\ ui.game_over
  /\ gh.fin_game = 0
  /\ fs[STATE_PATH].kind = "json"
  /\ fs[STATE_PATH].data.score = ui.game.score

\* C28: the record of a finished game holds the final score of the game and the
\* number of placements the game process applied in it.
C28_StatsOfGameAsEnded ==
  [][FinalizeEnded =>
       LET record == fs'[GENERIC_PATH].data[ag.game]
       IN  /\ record.Score = ui.game.score
           /\ record.Moves = gh.moves]_vars

--------------------------------------------------------------------------
\* Claims about the record of the best member

\* Member i has the highest fitness of the population p.
IsTop(p, i) == \A k \in 0 .. 9 : ~FitGt(p[k].f, p[i].f)

\* C29: a trainer step rewrites the record of the best member only when it
\* completes a generation whose highest fitness is above the fitness on record;
\* the record then holds the weights and the fitness of a member of highest
\* fitness; and no step lowers the fitness on record.
C29_BestRecordOnlyRises ==
  [][TrainStep =>
       /\ ~FitGt(Best(fs), Best(fs'))
       /\ fs'[BEST_FILE] # fs[BEST_FILE] =>
            /\ Completes
            /\ \E i \in 0 .. 9 :
                  /\ IsTop(Assigned, i)
                  /\ FitGt(Assigned[i].f, Best(fs))
                  /\ fs'[BEST_FILE] = Whole([w |-> Assigned[i].w, f |-> Assigned[i].f])
       /\ (Completes /\ \E i \in 0 .. 9 : FitGt(Assigned[i].f, Best(fs))) =>
            fs'[BEST_FILE] # fs[BEST_FILE]]_vars

\* A second generation was completed with a record on file and the record was
\* left as it was, above every member carried over, and a first one had set it.
C29_Witness ==
  /\ AfterTurnover
  /\ b_out.steps >= 19
  /\ fs[BEST_FILE].kind = "json"
  /\ FitGt(fs[BEST_FILE].data.f, fs[POPULATION_FILE].data[0].f)
  /\ fs[BEST_FILE].data.f = b_out.top

--------------------------------------------------------------------------
\* Claims about the length of a generation

\* C30: as long as every batch had a fitness above 0, fewer than 10 runs on a
\* batch have passed since the last run that completed a generation (or since
\* the start): the tenth run at the latest completes one.
C30_TurnoverWithinTenRuns == (b_out.zeros = 0 /\ b_op = "train") => b_out.since <= 9

\* Nineteen runs on batches of fitness above 0: the tenth completed the first
\* generation and the nineteenth the second.
C30_Witness ==
  /\ AfterTurnover
  /\ b_out.zeros = 0
  /\ b_out.steps = 19
  /\ b_out.since = 0

--------------------------------------------------------------------------
\* Claims about the engine's deal

\* C33: for every grid and legal placement, _simulate_on returns the grid that
\* placing the piece and running clear_lines leaves.
C33_SimulateOnEqualsPlace == b_op = "simulate_on" => b_out.sim = b_out.real

\* The game with the hand the deal gave.
Dealt == [b_game EXCEPT !.hand = b_out.hand]

\* C32: right after a deal the hand holds 3 pieces and one of them at least can
\* be placed on the board, so the game is not over.
C32_DealtHandPlayable ==
  b_op = "deal" =>
     /\ \A i \in 0 .. 2 : b_out.hand[i] # None
     /\ \E i \in 0 .. 2, x \in Idx, y \in Idx : Game_can_place(Dealt, b_out.hand[i], x, y)
     /\ Game_any_move_available(Dealt)

\* A deal on a board where only the one-cell piece fits: the hand holds it and
\* two pieces that cannot be placed on the board as it is.
C32_Witness ==
  /\ b_op = "deal"
  /\ b_out.hand[0] = P(0)
  /\ b_out.hand[1] # P(0) /\ b_out.hand[2] # P(0)
  /\ \A i \in 1 .. 2 : \A x \in Idx, y \in Idx : ~Game_can_place(Dealt, b_out.hand[i], x, y)
  /\ \A i \in 1 .. 2 : \A x \in Idx, y \in Idx : ~Game_can_place(Dealt, b_out.hand[i], x, y)

--------------------------------------------------------------------------
\* Claims about an agent started again in the middle of a game

\* The agent was started again and has published nothing yet, its move counter
\* is 0, and the game process is in a game that is not over with 1 as its last
\* handled id.
RestartedBehind ==
  /\ gh.starts = MaxStarts
  /\ ag.pc = "loop"
  /\ ag.move_id = 0
  /\ gh.pub_run = 0
  /\ ui.last_move_id = 1
  /\ ~ui.game_over

\* The number of agent actions the game process has applied.
Applied == Cardinality(gh.applied)

\* The agent is at a search with the ids of the exploration used up.
IdsExhausted == ag.pc = "poll" /\ ag.move_id = MaxMoveId

\* C31: from such a state on, with both processes taking their steps, the game
\* process applies one more action of the agent (or the agent's ids reach the
\* bound of the exploration).
C31_RestartedAgentCatchesUp ==
  \A k \in 0 .. 4 : (RestartedBehind /\ Applied = k) ~> (Applied > k \/ IdsExhausted)

====
